---------------------------- MODULE Spec2Model ----------------------------
(***************************************************************************)
(* Delta-neutral funding arbitrage core: the two-leg executor              *)
(* (src/src/trading/executor.py), the position monitor                     *)
(* (src/src/trading/position_manager.py) and the data model                *)
(* (src/src/core/models.py).                                               *)
(*                                                                         *)
(* Coroutines are cut at their await points: one action is the code that   *)
(* runs from one resumption to the next suspension.  Optional values are   *)
(* encoded as sequences: None is <<>> and a present value x is <<x>>.      *)
(* Money amounts are integers (USD).                                       *)
(***************************************************************************)
EXTENDS Integers, Sequences, FiniteSets, TLC

\* ------------------------------------------------------------------ bounds
MaxTicks == 2
MaxScans == 2
MaxSnapshots == 4
MaxLen == 4

\* ------------------------------------------------------- optional values
None == <<>>
Some(x) == <<x>>
IsNone(o) == o = <<>>
IsSome(o) == o # <<>>
Val(o) == o[1]
\* Python truthiness of an Optional number: None and 0 are both falsy.
Truthy(o) == o # <<>> /\ o[1] # 0
\* An Optional string put into an f-string.
Str(o) == IF o = <<>> THEN "None" ELSE o[1]

\* ---------------------------------------------------------------- venues
\* Platform names as the scanner reports them (Platform enum values).
PlatformNames == {"Hyperliquid", "Lighter"}
\* str.lower() on a platform name.
Lower(name) ==
    CASE name = "Hyperliquid" -> "hyperliquid"
      [] name = "Lighter"     -> "lighter"
      [] name = "hyperliquid" -> "hyperliquid"
      [] name = "lighter"     -> "lighter"
RegistryKeys == {Lower(n) : n \in PlatformNames}

\* Opportunity (models.py): the ranker only pairs two different venues.
Pairs == {"BTC", "ETH"}
Opportunities ==
    {o \in [pair : Pairs, long_platform : PlatformNames, short_platform : PlatformNames] :
        o.long_platform # o.short_platform}

Prices == {100, 101}

\* ------------------------------------------------------------ data model
\* OrderResult (models.py): success, order_id?, filled_price?, error_message?
OrderResult(success, platform, pair, side, order_id, filled_price, error_message) ==
    [success |-> success, platform |-> platform, pair |-> pair, side |-> side,
     order_id |-> order_id, filled_price |-> filled_price,
     error_message |-> error_message]

\* Position (models.py) with its defaults.
Position(platform, pair, side, entry_price, current_price, unrealized_pnl_usd, funding_accumulated_usd, liquidation_price) ==
    [platform |-> platform, pair |-> pair, side |-> side,
     entry_price |-> entry_price, current_price |-> current_price,
     unrealized_pnl_usd |-> unrealized_pnl_usd,
     funding_accumulated_usd |-> funding_accumulated_usd,
     liquidation_price |-> liquidation_price]

\* DeltaNeutralStrategy (models.py) as the executor constructs it.
DeltaNeutralStrategy(auto_close_on_reversal, take_profit_usd, stop_loss_usd) ==
    [auto_close_on_reversal |-> auto_close_on_reversal,
     take_profit_usd |-> take_profit_usd,
     stop_loss_usd |-> stop_loss_usd,
     max_hold_hours |-> None,
     long_position |-> None,
     short_position |-> None]

\* DeltaNeutralStrategy.get_total_pnl
LegPnl(p) ==
    IF IsNone(p) THEN 0
    ELSE Val(p).unrealized_pnl_usd + Val(p).funding_accumulated_usd
get_total_pnl(s) == LegPnl(s.long_position) + LegPnl(s.short_position)

\* ------------------------------------------------------ adapter contract
\* What an awaited adapter call can come back with: a result, or an error
\* raised out of the call.
Result(r) == [raised |-> FALSE, result |-> <<r>>]
Raise == [raised |-> TRUE, result |-> <<>>]

\* The order id a venue hands out.
OrderId(platform, side) ==
    IF side = "long" THEN "order-long"
    ELSE IF side = "short" THEN "order-short" ELSE "order-close"

\* place_market_order replies of a venue.  A success carries an order id
\* and an optional filled_price (the Lighter adapter reports none).
PlaceReplies(platform, pair, side) ==
    {Raise}
    \cup {Result(OrderResult(TRUE, platform, pair, side, Some(OrderId(platform, side)), fp, None)) :
            fp \in {None} \cup {Some(p) : p \in Prices}}
    \cup {Result(OrderResult(FALSE, platform, pair, side, None, None, Some("rejected")))}

\* close_position replies of a venue.
CloseReplies(platform, pair) ==
    {Raise,
     Result(OrderResult(TRUE, platform, pair, "close", Some(OrderId(platform, "close")), None, None)),
     Result(OrderResult(FALSE, platform, pair, "close", None, None, Some("close failed")))}

\* AlertConfig (models.py) with its defaults.
AlertConfig(enabled, on_profit, on_loss, on_liquidation, on_reversal) ==
    [enabled |-> enabled,
     alert_on_profit_threshold |-> on_profit,
     profit_threshold_usd |-> 50,
     alert_on_loss_threshold |-> on_loss,
     loss_threshold_usd |-> -20,
     alert_on_liquidation_risk |-> on_liquidation,
     liquidation_risk_threshold_pct |-> 20,
     alert_on_funding_reversal |-> on_reversal]

\* PositionManager.__init__ followed by the callback setters.
PositionManager(alert_config, on_update_callback, on_alert_callback) ==
    [alert_config |-> alert_config,
     on_update_callback |-> on_update_callback,
     on_alert_callback |-> on_alert_callback]

\* A callback is not registered ("none"), returns normally ("ok") or raises
\* on every call ("raises").
DefaultManager == PositionManager(AlertConfig(TRUE, TRUE, TRUE, TRUE, TRUE), "ok", "ok")

\* The manager set-ups explored: the defaults, alerts disabled, the
\* liquidation check switched off, raising callbacks, no callbacks.
ManagerConfigs ==
    {DefaultManager,
     PositionManager(AlertConfig(FALSE, TRUE, TRUE, TRUE, TRUE), "ok", "ok"),
     PositionManager(AlertConfig(TRUE, TRUE, TRUE, FALSE, TRUE), "ok", "ok"),
     PositionManager(AlertConfig(TRUE, TRUE, TRUE, TRUE, TRUE), "raises", "raises"),
     PositionManager(AlertConfig(TRUE, TRUE, TRUE, TRUE, TRUE), "none", "none")}

\* A _monitor_loop task: its position and the local long_positions.
NoLoop == [pc |-> "none", long_positions |-> <<>>]

\* get_positions replies of the long venue: positions as adapters build
\* them (current_price is never filled in; Hyperliquid fills in
\* liquidation_price), and as the Position type allows.
LongSamples(platform, pair) ==
    {Position(platform, pair, "long", 100, None, 0, 0, None),
     Position(platform, pair, "long", 100, Some(100), 60, 0, Some(90)),
     Position(platform, pair, "long", 100, None, -30, 0, Some(50))}

ShortSamples(platform, pair) ==
    {Position(platform, pair, "short", 101, None, 0, 1, None),
     Position(platform, pair, "short", 101, Some(100), -10, 0, Some(150)),
     Position(platform, pair, "short", 101, Some(100), -30, 0, Some(110))}

VARIABLES
    platforms,      \* TradingExecutor.platforms: the registry keys present
    opportunity,    \* the Opportunity handed to execute_delta_neutral
    exec_pc,        \* position of execute_delta_neutral
    exec_ret,       \* its return value (success, message); the strategy is `strategy'
    long_result,    \* local long_result
    short_result,   \* local short_result
    rollback_result,\* local rollback_result
    strategy,       \* the DeltaNeutralStrategy object (None before it exists)
    calls,          \* adapter calls issued by the executor, in order
    legOpen,        \* venue side: is the pair's position open on each leg's venue
    adapterRaised,  \* some adapter call of the executor raised
    close_pc,       \* position of close_delta_neutral
    close_ret,      \* its return value (success, message)
    manager,        \* PositionManager configuration: alert_config and callbacks
    is_monitoring,  \* PositionManager.is_monitoring
    loops,          \* the _monitor_loop tasks spawned by start_monitoring
    last_update,    \* PositionManager.last_update
    funding_history,\* PositionManager.funding_history
    alerts,         \* alerts emitted by _send_alert since the latest tick began
    updates,        \* PositionUpdates handed to the update callback in that tick
    tick_result,    \* how the latest tick ended
    ticks,          \* ticks begun so far
    mon_calls,      \* adapter operations invoked by the monitor
    position_managers, \* PortfolioManager.position_managers: strategy id -> monitor
    pm_is_monitoring,  \* is_monitoring of each PositionManager object
    pm_loop,           \* is a _monitor_loop task of that object alive
    pm_last_update,    \* last_update of each PositionManager object
    summary,           \* the latest return value of get_portfolio_summary
    platform_vars,     \* ScannerPage.platform_vars: the venues ticked
    is_scanning,       \* ScannerPage.is_scanning
    opportunities,     \* ScannerPage.opportunities: the last scan's results
    last_scan_time,    \* ScannerPage.last_scan_time: the scan that set it
    scan_threads,      \* the _scan_thread threads started so far
    pair_runs,         \* a pair name and the results of standardize_pair_name on it
    funding_input,     \* the all_funding_data list handed to the ranker
    rank_call,         \* a call of find_funding_opportunities: arguments and result
    net_call           \* a call of calculate_net_spread: arguments and result

execVars == <<platforms, opportunity, exec_pc, exec_ret, long_result,
              short_result, rollback_result>>
closeVars == <<close_pc, close_ret>>
monVars == <<manager, is_monitoring, loops, last_update, funding_history,
             alerts, updates, tick_result, ticks, mon_calls>>
portVars == <<position_managers, pm_is_monitoring, pm_loop, pm_last_update, summary>>
scanVars == <<platform_vars, is_scanning, opportunities, last_scan_time, scan_threads>>
pureVars == <<pair_runs, funding_input, rank_call, net_call>>
vars == <<platforms, opportunity, exec_pc, exec_ret, long_result, short_result,
          rollback_result, strategy, calls, legOpen, adapterRaised,
          close_pc, close_ret, manager, is_monitoring, loops, last_update,
          funding_history, alerts, updates, tick_result, ticks, mon_calls,
          position_managers, pm_is_monitoring, pm_loop, pm_last_update, summary,
          platform_vars, is_scanning, opportunities, last_scan_time, scan_threads,
          pair_runs, funding_input, rank_call, net_call>>

\* ---------------------------------------- portfolio and scanner state
\* Strategy ids and the PositionManager objects handed to the portfolio.
StrategyIds == {"s1", "s2"}
Monitors == {"m1", "m2"}

\* PortfolioManager.__init__ and freshly built PositionManagers.
PortfolioIdle ==
    /\ position_managers = [id \in StrategyIds |-> None]
    /\ pm_is_monitoring = [m \in Monitors |-> FALSE]
    /\ pm_loop = [m \in Monitors |-> FALSE]
    /\ pm_last_update = [m \in Monitors |-> None]
    /\ summary = None

\* Venues of the scanner page, in the order of its check boxes.
ScanVenues == <<"hyperliquid", "paradex", "lighter">>
AllVenues == {ScanVenues[i] : i \in DOMAIN ScanVenues}
ScanIds == 1..MaxScans
\* A _scan_thread thread: its position, the local enabled_platforms, the
\* venues still to fetch, the outcome of each fetch so far,
\* all_funding_data, whether the ranker ran, and the list it hands over.
\* Inside _scan_callback only the list handed over is kept.
NoScan == [pc |-> "none", enabled_platforms |-> <<>>, todo |-> <<>>, fetched |-> <<>>,
           all_funding_data |-> <<>>, ranked |-> FALSE, result |-> <<>>]

\* ScannerPage.__init__: every venue ticked, nothing scanned.
ScannerIdle ==
    /\ platform_vars = AllVenues
    /\ is_scanning = FALSE
    /\ opportunities = <<>>
    /\ last_scan_time = None
    /\ scan_threads = [t \in ScanIds |-> NoScan]

\* No pure function of the scanner has been called.
PureIdle ==
    /\ pair_runs = <<>>
    /\ funding_input = <<>>
    /\ rank_call = None
    /\ net_call = None

\* get_platform without the registry check: every name resolves.
get_platform_Unchecked(name) == Some(Lower(name))

\* TradingExecutor.get_platform: registry lookup by lower-cased name.
get_platform(name) ==
    IF Lower(name) \in platforms THEN Some(Lower(name)) ELSE None

Call(platform, op, pair, side) ==
    [platform |-> platform, op |-> op, pair |-> pair, side |-> side]

\* f-string formatting of a price with ":.2f": raises TypeError on None.
FormatRaises(price) == IsNone(price)

\* No execution, close or monitor has begun.
TradingIdle ==
    /\ exec_pc = "idle"
    /\ exec_ret = None
    /\ long_result = None
    /\ short_result = None
    /\ rollback_result = None
    /\ strategy = None
    /\ calls = <<>>
    /\ legOpen = [long |-> FALSE, short |-> FALSE]
    /\ adapterRaised = FALSE
    /\ close_pc = "idle"
    /\ close_ret = None
    /\ manager = DefaultManager
    /\ is_monitoring = FALSE
    /\ loops = [i \in {1} |-> NoLoop]
    /\ last_update = None
    /\ funding_history = <<>>
    /\ alerts = <<>>
    /\ updates = <<>>
    /\ tick_result = "none"
    /\ ticks = 0
    /\ mon_calls = {}

Init ==
    /\ platforms \in SUBSET RegistryKeys
    /\ opportunity \in Opportunities
    /\ TradingIdle
    /\ PortfolioIdle
    /\ ScannerIdle
    /\ PureIdle

\* ------------------------------------------------- execute_delta_neutral
\* Entry up to the first await: build the strategy, resolve both adapters,
\* then issue the long order.
execute_delta_neutral(auto_close_on_reversal, take_profit_usd, stop_loss_usd) ==
    /\ exec_pc = "idle"
    /\ strategy' = Some(DeltaNeutralStrategy(auto_close_on_reversal,
                                             take_profit_usd, stop_loss_usd))
    /\ IF IsNone(get_platform(opportunity.long_platform))
       THEN /\ exec_ret' = Some([success |-> FALSE,
                                 msg |-> <<"Platform not available", opportunity.long_platform>>])
            /\ exec_pc' = "returned"
            /\ calls' = calls
       ELSE IF IsNone(get_platform(opportunity.short_platform))
       THEN /\ exec_ret' = Some([success |-> FALSE,
                                 msg |-> <<"Platform not available", opportunity.short_platform>>])
            /\ exec_pc' = "returned"
            /\ calls' = calls
       ELSE /\ calls' = Append(calls, Call(Val(get_platform(opportunity.long_platform)),
                                           "place_market_order", opportunity.pair, "long"))
            /\ exec_pc' = "await_long"
            /\ exec_ret' = exec_ret
    /\ UNCHANGED <<portVars, scanVars, pureVars, platforms, opportunity, long_result, short_result,
                   rollback_result, legOpen, adapterRaised, closeVars, monVars>>

\* AfterLong without the `if not long_result.success' return.
AfterLong_NoCheck(r) ==
    IF r.success /\ FormatRaises(r.filled_price) THEN "raise" ELSE "place_short"

\* What execute_delta_neutral does with the long order's result: return a
\* failure, fail in the log line that formats filled_price, or go on to the
\* short order.
AfterLong(r) ==
    IF ~r.success THEN "abort"
    ELSE IF FormatRaises(r.filled_price) THEN "raise"
    ELSE "place_short"

\* The long order comes back.
LongOrderReturns(reply, opened) ==
    /\ exec_pc = "await_long"
    /\ IF reply.raised
       THEN /\ exec_pc' = "raised"
            /\ adapterRaised' = TRUE
            /\ legOpen' = [legOpen EXCEPT !.long = opened]
            /\ UNCHANGED <<long_result, exec_ret, calls>>
       ELSE LET r == Val(reply.result) IN
            /\ long_result' = Some(r)
            /\ legOpen' = [legOpen EXCEPT !.long = r.success]
            /\ adapterRaised' = adapterRaised
            /\ CASE AfterLong(r) = "abort" ->
                      /\ exec_ret' = Some([success |-> FALSE,
                                           msg |-> <<"LONG order failed", Str(r.error_message)>>])
                      /\ exec_pc' = "returned"
                      /\ calls' = calls
                 [] AfterLong(r) = "raise" ->
                      /\ exec_pc' = "raised"
                      /\ UNCHANGED <<exec_ret, calls>>
                 [] AfterLong(r) = "place_short" ->
                      /\ calls' = Append(calls,
                            Call(Val(get_platform(opportunity.short_platform)),
                                 "place_market_order", opportunity.pair, "short"))
                      /\ exec_pc' = "await_short"
                      /\ exec_ret' = exec_ret
    /\ UNCHANGED <<portVars, scanVars, pureVars, platforms, opportunity, short_result, rollback_result,
                   strategy, closeVars, monVars>>

\* What execute_delta_neutral does with the short order's result: roll the
\* long leg back, fail in the log line that formats filled_price, or record
\* both positions.
AfterShort(r) ==
    IF ~r.success THEN "rollback"
    ELSE IF FormatRaises(r.filled_price) THEN "raise"
    ELSE "filled"

\* The compensating close sent to the short adapter instead.
RollbackPlatform_Short == get_platform(opportunity.short_platform)

\* The adapter the compensating close is sent to: long_platform.
RollbackPlatform == get_platform(opportunity.long_platform)

\* The short order comes back.
ShortOrderReturns(reply, opened) ==
    /\ exec_pc = "await_short"
    /\ IF reply.raised
       THEN /\ exec_pc' = "raised"
            /\ adapterRaised' = TRUE
            /\ legOpen' = [legOpen EXCEPT !.short = opened]
            /\ UNCHANGED <<short_result, exec_ret, calls, strategy>>
       ELSE LET r == Val(reply.result)
                lr == Val(long_result) IN
            /\ short_result' = Some(r)
            /\ legOpen' = [legOpen EXCEPT !.short = r.success]
            /\ adapterRaised' = adapterRaised
            /\ CASE AfterShort(r) = "rollback" ->
                      /\ calls' = Append(calls, Call(Val(RollbackPlatform), "close_position",
                                                     opportunity.pair, "none"))
                      /\ exec_pc' = "await_rollback"
                      /\ UNCHANGED <<exec_ret, strategy>>
                 [] AfterShort(r) = "raise" ->
                      /\ exec_pc' = "raised"
                      /\ UNCHANGED <<exec_ret, calls, strategy>>
                 [] AfterShort(r) = "filled" ->
                      /\ strategy' = Some([Val(strategy) EXCEPT
                            !.long_position = Some(Position(opportunity.long_platform,
                                  opportunity.pair, "long", Val(lr.filled_price),
                                  None, 0, 0, None)),
                            !.short_position = Some(Position(opportunity.short_platform,
                                  opportunity.pair, "short", Val(r.filled_price),
                                  None, 0, 0, None))])
                      /\ exec_ret' = Some([success |-> TRUE,
                            msg |-> <<"Delta-neutral strategy executed successfully!">>])
                      /\ exec_pc' = "returned"
                      /\ calls' = calls
    /\ UNCHANGED <<portVars, scanVars, pureVars, platforms, opportunity, long_result, rollback_result,
                   closeVars, monVars>>

\* RollbackMessage reporting a failed rollback like a successful one.
RollbackMessage_Same(r, msg) == msg \o <<"(rolled back successfully)">>

\* The message returned after the compensating close.
RollbackMessage(r, msg) ==
    IF r.success
    THEN msg \o <<"(rolled back successfully)">>
    ELSE msg \o <<"(ROLLBACK FAILED - CHECK", opportunity.long_platform>>

\* The compensating close comes back. The venue the close was sent to
\* closes its leg when it reports success.
RollbackReturns(reply) ==
    /\ exec_pc = "await_rollback"
    /\ LET leg == IF calls[Len(calls)].platform = Lower(opportunity.long_platform)
                  THEN "long" ELSE "short" IN
       /\ ~reply.raised => (Val(reply.result).success => legOpen[leg])
       /\ IF reply.raised
          THEN /\ exec_pc' = "raised"
               /\ adapterRaised' = TRUE
               /\ UNCHANGED <<rollback_result, exec_ret, legOpen>>
          ELSE LET r == Val(reply.result)
                   msg == <<"SHORT order failed", Str(Val(short_result).error_message),
                            "Rolling back LONG...">> IN
               /\ rollback_result' = Some(r)
               /\ adapterRaised' = adapterRaised
               /\ exec_pc' = "returned"
               /\ legOpen' = IF r.success THEN [legOpen EXCEPT ![leg] = FALSE] ELSE legOpen
               /\ exec_ret' = Some([success |-> FALSE, msg |-> RollbackMessage(r, msg)])
    /\ UNCHANGED <<portVars, scanVars, pureVars, platforms, opportunity, long_result, short_result, strategy,
                   calls, closeVars, monVars>>

\* --------------------------------------------------- close_delta_neutral
\* Entry up to the first await: check both positions and both adapters,
\* then issue the close of the long leg.
close_delta_neutral ==
    /\ close_pc = "idle"
    /\ exec_pc = "returned"
    /\ LET s == Val(strategy) IN
       IF IsNone(s.long_position) \/ IsNone(s.short_position)
       THEN /\ close_ret' = Some([success |-> FALSE,
                                  msg |-> <<"Strategy has no open positions">>])
            /\ close_pc' = "returned"
            /\ calls' = calls
       ELSE IF \/ IsNone(get_platform(Val(s.long_position).platform))
               \/ IsNone(get_platform(Val(s.short_position).platform))
       THEN /\ close_ret' = Some([success |-> FALSE,
                                  msg |-> <<"One or both platforms not available">>])
            /\ close_pc' = "returned"
            /\ calls' = calls
       ELSE /\ calls' = Append(calls, Call(Val(get_platform(Val(s.long_position).platform)),
                                           "close_position", opportunity.pair, "none"))
            /\ close_pc' = "await_long_close"
            /\ close_ret' = close_ret
    /\ UNCHANGED <<portVars, scanVars, pureVars, execVars, strategy, legOpen, adapterRaised, monVars>>

\* What close_delta_neutral does with the long close's result: a failure
\* returns at once, a success goes on to the short leg.
AfterLongClose(r) == IF ~r.success THEN "abort" ELSE "close_short"

\* The messages of the two failure returns.
ShortCloseFailedMessage_Long(r) == <<"Failed to close LONG", Str(r.error_message)>>
LongCloseFailedMessage(r) == <<"Failed to close LONG", Str(r.error_message)>>
ShortCloseFailedMessage(r) == <<"Failed to close SHORT", Str(r.error_message)>>

\* The close of the long leg comes back.
LongCloseReturns(reply) ==
    /\ close_pc = "await_long_close"
    /\ ~reply.raised => (Val(reply.result).success => legOpen.long)
    /\ IF reply.raised
       THEN /\ close_pc' = "raised"
            /\ adapterRaised' = TRUE
            /\ UNCHANGED <<close_ret, calls, legOpen>>
       ELSE LET r == Val(reply.result) IN
            /\ adapterRaised' = adapterRaised
            /\ legOpen' = IF r.success THEN [legOpen EXCEPT !.long = FALSE] ELSE legOpen
            /\ IF AfterLongClose(r) = "abort"
               THEN /\ close_ret' = Some([success |-> FALSE,
                                          msg |-> LongCloseFailedMessage(r)])
                    /\ close_pc' = "returned"
                    /\ calls' = calls
               ELSE
                    /\ calls' = Append(calls,
                          Call(Val(get_platform(Val(Val(strategy).short_position).platform)),
                               "close_position", opportunity.pair, "none"))
                    /\ close_pc' = "await_short_close"
                    /\ close_ret' = close_ret
    /\ UNCHANGED <<portVars, scanVars, pureVars, execVars, strategy, monVars>>

\* The close of the short leg comes back.
ShortCloseReturns(reply) ==
    /\ close_pc = "await_short_close"
    /\ ~reply.raised => (Val(reply.result).success => legOpen.short)
    /\ IF reply.raised
       THEN /\ close_pc' = "raised"
            /\ adapterRaised' = TRUE
            /\ UNCHANGED <<close_ret, legOpen>>
       ELSE LET r == Val(reply.result) IN
            /\ adapterRaised' = adapterRaised
            /\ close_pc' = "returned"
            /\ IF ~r.success
               THEN /\ close_ret' = Some([success |-> FALSE,
                                          msg |-> ShortCloseFailedMessage(r)])
                    /\ legOpen' = legOpen
               ELSE /\ legOpen' = [legOpen EXCEPT !.short = FALSE]
                    /\ close_ret' = Some([success |-> TRUE,
                                          msg |-> <<"Delta-neutral strategy closed. Final PnL",
                                                    ToString(get_total_pnl(Val(strategy)))>>])
    /\ UNCHANGED <<portVars, scanVars, pureVars, execVars, strategy, calls, monVars>>

\* ------------------------------------------------------- PositionManager
Abs(x) == IF x < 0 THEN -x ELSE x

\* get_positions replies of a leg's venue: an error, or a list. The
\* strategy's position is only listed while it is open on the venue; a
\* position of the other side may be listed in front of it.
PositionsReplies(leg, platform, pair) ==
    LET samples == IF leg = "long" THEN LongSamples(platform, pair)
                   ELSE ShortSamples(platform, pair)
        decoy == IF leg = "long" THEN Position(platform, pair, "short", 100, None, 0, 0, None)
                 ELSE Position(platform, "SOL", "short", 100, None, 0, 0, None)
    IN  {Raise, Result(<<>>), Result(<<decoy>>)}
        \cup (IF legOpen[leg] THEN {Result(<<p>>) : p \in samples} ELSE {})

\* The scan of _fetch_current_positions: first position of the pair and side.
RECURSIVE FindPosition(_, _, _)
FindPosition(positions, pair, side) ==
    IF positions = <<>> THEN None
    ELSE IF Head(positions).pair = pair /\ Head(positions).side = side
         THEN Some(Head(positions))
         ELSE FindPosition(Tail(positions), pair, side)

\* _check_auto_close_conditions: first trigger that holds, or None.
check_auto_close_conditions(s, total_pnl, current_spread, elapsed) ==
    IF Truthy(s.take_profit_usd) /\ total_pnl >= Val(s.take_profit_usd)
    THEN Some("take_profit")
    ELSE IF Truthy(s.stop_loss_usd) /\ total_pnl <= Val(s.stop_loss_usd)
    THEN Some("stop_loss")
    ELSE IF s.auto_close_on_reversal /\ current_spread < 0
    THEN Some("reversal")
    ELSE IF Truthy(s.max_hold_hours) /\ elapsed
    THEN Some("max_hold")
    ELSE None

\* _send_alert: nothing when alerts are disabled, else one alert.
send_alert(alert_type, message) ==
    IF manager.alert_config.enabled THEN <<[type |-> alert_type, message |-> message]>>
    ELSE <<>>

\* The distance computation of the liquidation check raises (TypeError on a
\* missing current_price, ZeroDivisionError on 0).
LiquidationCheckRaises(pos) ==
    Truthy(pos.liquidation_price) /\ ~Truthy(pos.current_price)

\* abs((current - liquidation) / current) * 100 < threshold
NearLiquidation(pos) ==
    /\ Truthy(pos.liquidation_price)
    /\ Abs(Val(pos.current_price) - Val(pos.liquidation_price)) * 100
         < manager.alert_config.liquidation_risk_threshold_pct * Abs(Val(pos.current_price))

\* funding_history.append and the cut to the last 1000 samples.
HistoryLimit == 1000
AppendHistory(h, x) ==
    LET h2 == Append(h, x) IN
    IF Len(h2) > HistoryLimit
    THEN SubSeq(h2, Len(h2) - HistoryLimit + 1, Len(h2))
    ELSE h2

PositionUpdate(total_pnl, funding_accumulated, unrealized_pnl, long_pos, short_pos, is_at_risk, risk_message) ==
    [total_pnl |-> total_pnl, funding_accumulated |-> funding_accumulated,
     unrealized_pnl |-> unrealized_pnl, long_position |-> long_pos,
     short_position |-> short_pos, is_at_risk |-> is_at_risk,
     risk_message |-> risk_message]

\* A monitor that closes the venue's position instead of reading it.
GetPositions_Close(platform) == Call(platform, "close_position", "none", "none")

\* The one adapter operation of _fetch_current_positions: get_positions().
GetPositions(platform) == Call(platform, "get_positions", "none", "none")

\* start_monitoring: no-op while monitoring, else set the flag and spawn
\* a _monitor_loop task.
start_monitoring ==
    /\ exec_pc = "returned" /\ Val(exec_ret).success
    /\ IF is_monitoring
       THEN UNCHANGED <<is_monitoring, loops>>
       ELSE /\ \E i \in DOMAIN loops :
                 /\ loops[i].pc = "none"
                 /\ \A j \in DOMAIN loops : j < i => loops[j].pc # "none"
                 /\ loops' = [loops EXCEPT ![i].pc = "ready"]
            /\ is_monitoring' = TRUE
    /\ UNCHANGED <<portVars, scanVars, pureVars, execVars, strategy, calls, legOpen, adapterRaised, closeVars,
                   manager, last_update, funding_history, alerts, updates,
                   tick_result, ticks, mon_calls>>

\* A stop that cancels the loop tasks instead of waiting for their test.
stop_monitoring_Cancel ==
    /\ exec_pc = "returned" /\ Val(exec_ret).success
    /\ is_monitoring' = FALSE
    /\ loops' = [i \in DOMAIN loops |->
                   IF loops[i].pc = "none" THEN loops[i]
                   ELSE [loops[i] EXCEPT !.pc = "exited"]]
    /\ UNCHANGED <<portVars, scanVars, pureVars, execVars, strategy, calls, legOpen, adapterRaised,
                   closeVars, manager, last_update, funding_history, alerts, updates,
                   tick_result, ticks, mon_calls>>

\* stop_monitoring
stop_monitoring ==
    /\ exec_pc = "returned" /\ Val(exec_ret).success
    /\ is_monitoring' = FALSE
    /\ UNCHANGED <<portVars, scanVars, pureVars, execVars, strategy, calls, legOpen, adapterRaised, closeVars,
                   manager, loops, last_update, funding_history, alerts, updates,
                   tick_result, ticks, mon_calls>>

\* _monitor_loop, the `while self.is_monitoring' test at the start of the
\* task and after each sleep: leave the loop, or begin a tick by asking the
\* long venue for its positions.
LoopIteration(i) ==
    /\ loops[i].pc \in {"ready", "sleep"}
    /\ IF is_monitoring
       THEN /\ ticks < MaxTicks
            /\ ticks' = ticks + 1
            /\ loops' = [loops EXCEPT ![i].pc = "fetch_long"]
            /\ alerts' = <<>>
            /\ updates' = <<>>
            /\ tick_result' = "running"
            /\ mon_calls' = mon_calls \cup
                 {GetPositions(Val(get_platform(opportunity.long_platform)))}
       ELSE /\ loops' = [loops EXCEPT ![i].pc = "exited"]
            /\ UNCHANGED <<ticks, alerts, updates, tick_result, mon_calls>>
    /\ UNCHANGED <<portVars, scanVars, pureVars, execVars, strategy, calls, legOpen, adapterRaised, closeVars,
                   manager, is_monitoring, last_update, funding_history>>

\* A long-venue error that, besides skipping the tick, records a funding
\* sample.
LongPositionsReturn_Sample(i, reply) ==
    /\ loops[i].pc = "fetch_long"
    /\ IF reply.raised
       THEN /\ loops' = [loops EXCEPT ![i].pc = "sleep"]
            /\ tick_result' = "skipped"
            /\ mon_calls' = mon_calls
            /\ funding_history' = AppendHistory(funding_history, 0)
       ELSE /\ loops' = [loops EXCEPT ![i].pc = "fetch_short",
                                      ![i].long_positions = Val(reply.result)]
            /\ tick_result' = tick_result
            /\ mon_calls' = mon_calls \cup
                 {GetPositions(Val(get_platform(opportunity.short_platform)))}
            /\ funding_history' = funding_history
    /\ UNCHANGED <<portVars, scanVars, pureVars, execVars, strategy, calls, legOpen, adapterRaised, closeVars,
                   manager, is_monitoring, last_update, alerts, updates, ticks>>

\* _fetch_current_positions after the long venue answered: an error makes
\* the fetch return (None, None) and the tick is skipped; else the short
\* venue is asked.
LongPositionsReturn(i, reply) ==
    /\ loops[i].pc = "fetch_long"
    /\ IF reply.raised
       THEN /\ loops' = [loops EXCEPT ![i].pc = "sleep"]
            /\ tick_result' = "skipped"
            /\ mon_calls' = mon_calls
       ELSE /\ loops' = [loops EXCEPT ![i].pc = "fetch_short",
                                      ![i].long_positions = Val(reply.result)]
            /\ tick_result' = tick_result
            /\ mon_calls' = mon_calls \cup
                 {GetPositions(Val(get_platform(opportunity.short_platform)))}
    /\ UNCHANGED <<portVars, scanVars, pureVars, execVars, strategy, calls, legOpen, adapterRaised, closeVars,
                   manager, is_monitoring, last_update, funding_history, alerts,
                   updates, ticks>>

\* The rest of a tick, after the short venue answered: skip when a leg is
\* missing; else update the strategy, run the risk checks and the
\* auto-close triggers, publish the PositionUpdate, and sleep.  An error
\* raised inside the tick is caught by the loop, which sleeps and goes on;
\* an error raised by a callback is caught where the callback is called.
ShortPositionsReturn(i, reply, elapsed) ==
    /\ loops[i].pc = "fetch_short"
    /\ loops' = [loops EXCEPT ![i].pc = "sleep", ![i].long_positions = <<>>]
    /\ LET long_pos == IF reply.raised THEN None
                       ELSE FindPosition(loops[i].long_positions, opportunity.pair, "long")
           short_pos == IF reply.raised THEN None
                        ELSE FindPosition(Val(reply.result), opportunity.pair, "short")
       IN
       IF IsNone(long_pos) \/ IsNone(short_pos)
       THEN /\ tick_result' = "skipped"
            /\ UNCHANGED <<strategy, funding_history, alerts, is_monitoring,
                           last_update, updates>>
       ELSE
       LET lp == Val(long_pos)
           sp == Val(short_pos)
           cfg == manager.alert_config
           s1 == [Val(strategy) EXCEPT !.long_position = long_pos,
                                       !.short_position = short_pos]
           total_pnl == get_total_pnl(s1)
           unrealized_pnl == lp.unrealized_pnl_usd + sp.unrealized_pnl_usd
           funding_accumulated == lp.funding_accumulated_usd + sp.funding_accumulated_usd
           current_spread == sp.unrealized_pnl_usd - lp.unrealized_pnl_usd
           raisesLong == cfg.alert_on_liquidation_risk /\ LiquidationCheckRaises(lp)
           nearLong == cfg.alert_on_liquidation_risk /\ ~raisesLong /\ NearLiquidation(lp)
           raisesShort == /\ cfg.alert_on_liquidation_risk /\ ~raisesLong
                          /\ LiquidationCheckRaises(sp)
           nearShort == /\ cfg.alert_on_liquidation_risk /\ ~raisesLong /\ ~raisesShort
                        /\ NearLiquidation(sp)
           longAlert == IF nearLong THEN send_alert("liquidation_risk", "LONG") ELSE <<>>
           shortAlert == IF nearShort THEN send_alert("liquidation_risk", "SHORT") ELSE <<>>
           profitAlert == IF /\ cfg.alert_on_profit_threshold
                             /\ total_pnl >= cfg.profit_threshold_usd
                          THEN send_alert("profit", "Profit threshold reached") ELSE <<>>
           lossAlert == IF /\ cfg.alert_on_loss_threshold
                           /\ total_pnl <= cfg.loss_threshold_usd
                        THEN send_alert("loss", "Loss threshold reached") ELSE <<>>
           reversalAlert == IF cfg.alert_on_funding_reversal /\ current_spread < 0
                            THEN send_alert("reversal", "Funding spread reversed") ELSE <<>>
           close_reason == check_auto_close_conditions(s1, total_pnl, current_spread, elapsed)
           closeAlert == IF IsNone(close_reason) THEN <<>>
                         ELSE send_alert("auto_close", Val(close_reason))
           update == PositionUpdate(total_pnl, funding_accumulated, unrealized_pnl,
                                    lp, sp, nearLong \/ nearShort,
                                    IF nearShort THEN Some("SHORT")
                                    ELSE IF nearLong THEN Some("LONG") ELSE None)
       IN
       /\ strategy' = Some(s1)
       /\ funding_history' = AppendHistory(funding_history, funding_accumulated)
       /\ IF raisesLong \/ raisesShort
          THEN /\ alerts' = alerts \o longAlert
               /\ tick_result' = "error"
               /\ UNCHANGED <<is_monitoring, last_update, updates>>
          ELSE /\ alerts' = alerts \o longAlert \o shortAlert \o profitAlert
                              \o lossAlert \o reversalAlert \o closeAlert
               /\ is_monitoring' = IF IsNone(close_reason) THEN is_monitoring ELSE FALSE
               /\ last_update' = Some(update)
               /\ updates' = IF manager.on_update_callback # "none"
                             THEN Append(updates, update) ELSE updates
               /\ tick_result' = "ok"
    /\ UNCHANGED <<portVars, scanVars, pureVars, execVars, calls, legOpen, adapterRaised, closeVars, manager,
                   ticks, mon_calls>>

\* ----------------------------------------------------------- the executor
TakeProfits == {None, Some(0), Some(50)}
StopLosses == {None, Some(-20)}

\* The strategies put under a monitor: <<auto_close_on_reversal,
\* take_profit_usd, stop_loss_usd, max_hold_hours>>, each trigger alone
\* and the combinations in which several can hold on one tick.
MonitoredSettings ==
    {<<FALSE, None, None, None>>,
     <<FALSE, Some(50), None, None>>,
     <<FALSE, Some(0), None, None>>,
     <<FALSE, None, Some(-20), None>>,
     <<TRUE, None, None, None>>,
     <<FALSE, None, None, Some(24)>>,
     <<TRUE, Some(50), Some(-20), Some(24)>>,
     <<TRUE, None, Some(-20), Some(24)>>,
     <<TRUE, None, None, Some(24)>>,
     <<FALSE, Some(0), Some(-20), None>>,
     <<TRUE, Some(0), None, None>>}

Execute ==
    \E rev \in BOOLEAN, tp \in TakeProfits, sl \in StopLosses :
        execute_delta_neutral(rev, tp, sl)
LongOrder ==
    \E reply \in PlaceReplies(opportunity.long_platform, opportunity.pair, "long"), opened \in BOOLEAN :
        LongOrderReturns(reply, opened)
ShortOrder ==
    \E reply \in PlaceReplies(opportunity.short_platform, opportunity.pair, "short"), opened \in BOOLEAN :
        ShortOrderReturns(reply, opened)
Rollback ==
    \E reply \in CloseReplies(opportunity.long_platform, opportunity.pair) : RollbackReturns(reply)
Close == close_delta_neutral
LongClose ==
    \E reply \in CloseReplies(opportunity.long_platform, opportunity.pair) : LongCloseReturns(reply)
ShortClose ==
    \E reply \in CloseReplies(opportunity.short_platform, opportunity.pair) : ShortCloseReturns(reply)

Next ==
    \/ Execute
    \/ LongOrder
    \/ ShortOrder
    \/ Rollback
    \/ Close
    \/ LongClose
    \/ ShortClose

Spec == Init /\ [][Next]_vars

\* ------------------------------------------------------------ the monitor
\* A PositionManager is built for the strategy of a successful execution:
\* both legs filled and open, positions recorded from the fills.
MonitorStart(slots, managers, settings) ==
    /\ platforms = RegistryKeys
    /\ opportunity = [pair |-> "BTC", long_platform |-> "Hyperliquid",
                      short_platform |-> "Lighter"]
    /\ exec_pc = "returned"
    /\ exec_ret = Some([success |-> TRUE,
                        msg |-> <<"Delta-neutral strategy executed successfully!">>])
    /\ long_result = Some(OrderResult(TRUE, opportunity.long_platform, "BTC", "long",
                            Some(OrderId(opportunity.long_platform, "long")), Some(100), None))
    /\ short_result = Some(OrderResult(TRUE, opportunity.short_platform, "BTC", "short",
                            Some(OrderId(opportunity.short_platform, "short")), Some(101), None))
    /\ rollback_result = None
    /\ \E st \in settings :
         strategy = Some([DeltaNeutralStrategy(st[1], st[2], st[3]) EXCEPT
            !.max_hold_hours = st[4],
            !.long_position = Some(Position(opportunity.long_platform, opportunity.pair, "long",
                                            100, None, 0, 0, None)),
            !.short_position = Some(Position(opportunity.short_platform, opportunity.pair, "short",
                                             101, None, 0, 0, None))])
    /\ calls = <<Call(Lower(opportunity.long_platform), "place_market_order", opportunity.pair, "long"),
                 Call(Lower(opportunity.short_platform), "place_market_order", opportunity.pair, "short")>>
    /\ legOpen = [long |-> TRUE, short |-> TRUE]
    /\ adapterRaised = FALSE
    /\ close_pc = "idle"
    /\ close_ret = None
    /\ manager \in managers
    /\ is_monitoring = FALSE
    /\ loops = [i \in slots |-> NoLoop]
    /\ last_update = None
    /\ funding_history = <<>>
    /\ alerts = <<>>
    /\ updates = <<>>
    /\ tick_result = "none"
    /\ ticks = 0
    /\ mon_calls = {}
    /\ PortfolioIdle
    /\ ScannerIdle
    /\ PureIdle

MonitorInit == MonitorStart({1}, ManagerConfigs, MonitoredSettings)

Start == start_monitoring
Stop == stop_monitoring
Iterate == \E i \in DOMAIN loops : LoopIteration(i)
FetchLong ==
    \E i \in DOMAIN loops, reply \in PositionsReplies("long", opportunity.long_platform, opportunity.pair) :
        LongPositionsReturn(i, reply)
Tick ==
    \E i \in DOMAIN loops, reply \in PositionsReplies("short", opportunity.short_platform, opportunity.pair),
       elapsed \in BOOLEAN :
        ShortPositionsReturn(i, reply, elapsed)

MonitorNext ==
    \/ Start
    \/ Stop
    \/ Iterate
    \/ FetchLong
    \/ Tick
    \/ Close
    \/ LongClose
    \/ ShortClose

MonitorSpec == MonitorInit /\ [][MonitorNext]_vars

\* One PositionManager whose start_monitoring can be called again while a
\* task it spawned earlier is still alive: two task slots, the default
\* manager, a strategy with a take-profit.
RestartInit == MonitorStart({1, 2}, {DefaultManager}, {<<FALSE, Some(50), None, None>>})

RestartNext ==
    \/ Start
    \/ Stop
    \/ Iterate
    \/ FetchLong
    \/ Tick

RestartSpec == RestartInit /\ [][RestartNext]_vars

\* ------------------------------------------------------ PortfolioManager
\* The monitors of the portfolio run the loop above; here a tick is cut down
\* to what the portfolio reads: the PositionUpdate it stores in last_update
\* and whether an auto-close trigger cleared is_monitoring.
UpdateSamples ==
    {PositionUpdate(60, 1, 59, None, None, FALSE, None),
     PositionUpdate(-29, 1, -30, None, None, TRUE, Some("LONG")),
     PositionUpdate(5, 0, 5, None, None, TRUE, Some("SHORT"))}

\* `summary' holds the value of a get_portfolio_summary call until the
\* next operation.
otherVars == <<execVars, strategy, calls, legOpen, adapterRaised, closeVars, monVars>>

\* PortfolioManager.add_strategy
add_strategy(strategy_id, position_manager) ==
    /\ position_managers' = [position_managers EXCEPT ![strategy_id] = Some(position_manager)]
    /\ summary' = None
    /\ UNCHANGED <<pm_is_monitoring, pm_loop, pm_last_update, otherVars, pureVars, scanVars>>

\* PortfolioManager.remove_strategy
remove_strategy(strategy_id) ==
    /\ IF IsSome(position_managers[strategy_id])
       THEN /\ pm_is_monitoring' =
                 [pm_is_monitoring EXCEPT ![Val(position_managers[strategy_id])] = FALSE]
            /\ position_managers' = [position_managers EXCEPT ![strategy_id] = None]
       ELSE UNCHANGED <<pm_is_monitoring, position_managers>>
    /\ summary' = None
    /\ UNCHANGED <<pm_loop, pm_last_update, otherVars, pureVars, scanVars>>

\* The monitors held by the portfolio: position_managers.values().
ManagedMonitors ==
    {Val(position_managers[id]) : id \in {x \in StrategyIds : IsSome(position_managers[x])}}

\* PortfolioManager.start_all_monitoring: start_monitoring on every value.
start_all_monitoring ==
    /\ pm_is_monitoring' = [m \in Monitors |-> pm_is_monitoring[m] \/ m \in ManagedMonitors]
    /\ pm_loop' = [m \in Monitors |->
                     pm_loop[m] \/ (m \in ManagedMonitors /\ ~pm_is_monitoring[m])]
    /\ summary' = None
    /\ UNCHANGED <<position_managers, pm_last_update, otherVars, pureVars, scanVars>>

\* PortfolioManager.stop_all_monitoring: stop_monitoring on every value.
stop_all_monitoring ==
    /\ pm_is_monitoring' = [m \in Monitors |-> pm_is_monitoring[m] /\ m \notin ManagedMonitors]
    /\ summary' = None
    /\ UNCHANGED <<position_managers, pm_loop, pm_last_update, otherVars, pureVars, scanVars>>

\* A tick of monitor m's loop running to its end: it stores the update
\* and, when a trigger fired, clears the flag.
MonitorTick(m, update, should_close) ==
    /\ pm_loop[m]
    /\ pm_last_update' = [pm_last_update EXCEPT ![m] = Some(update)]
    /\ pm_is_monitoring' = [pm_is_monitoring EXCEPT ![m] = IF should_close THEN FALSE ELSE @]
    /\ summary' = None
    /\ UNCHANGED <<position_managers, pm_loop, otherVars, pureVars, scanVars>>

\* The `while self.is_monitoring' test of monitor m failing: the task ends.
MonitorExit(m) ==
    /\ pm_loop[m] /\ ~pm_is_monitoring[m]
    /\ pm_loop' = [pm_loop EXCEPT ![m] = FALSE]
    /\ summary' = None
    /\ UNCHANGED <<position_managers, pm_is_monitoring, pm_last_update, otherVars, pureVars, scanVars>>

\* get_current_state that never has an update.
get_current_state_None(m) == None

\* PositionManager.get_current_state
get_current_state(m) == pm_last_update[m]

\* The loop of get_portfolio_summary over position_managers.values().
RECURSIVE SummaryOver(_)
SummaryOver(ids) ==
    IF ids = {} THEN [total_pnl_usd |-> 0, total_funding_usd |-> 0, num_at_risk |-> 0]
    ELSE LET id == CHOOSE x \in ids : TRUE
             rest == SummaryOver(ids \ {id})
             state == get_current_state(Val(position_managers[id]))
         IN  IF IsNone(state) THEN rest
             ELSE [total_pnl_usd |-> rest.total_pnl_usd + Val(state).total_pnl,
                   total_funding_usd |-> rest.total_funding_usd + Val(state).funding_accumulated,
                   num_at_risk |-> rest.num_at_risk + (IF Val(state).is_at_risk THEN 1 ELSE 0)]

\* PortfolioManager.get_portfolio_summary
get_portfolio_summary ==
    /\ LET keys == {id \in StrategyIds : IsSome(position_managers[id])}
           sums == SummaryOver(keys)
       IN  summary' = Some([total_pnl_usd |-> sums.total_pnl_usd,
                            total_funding_usd |-> sums.total_funding_usd,
                            num_strategies |-> Cardinality(keys),
                            num_at_risk |-> sums.num_at_risk,
                            active_managers |-> keys])
    /\ UNCHANGED <<position_managers, pm_is_monitoring, pm_loop, pm_last_update,
                   otherVars, pureVars, scanVars>>

PortfolioInit ==
    /\ platforms = RegistryKeys
    /\ opportunity = [pair |-> "BTC", long_platform |-> "Hyperliquid",
                      short_platform |-> "Lighter"]
    /\ TradingIdle
    /\ PortfolioIdle
    /\ ScannerIdle
    /\ PureIdle

Add == \E id \in StrategyIds, m \in Monitors : add_strategy(id, m)
Remove == \E id \in StrategyIds : remove_strategy(id)
StartAll == start_all_monitoring
StopAll == stop_all_monitoring
MonitorTicks ==
    \E m \in Monitors, update \in UpdateSamples, should_close \in BOOLEAN :
        MonitorTick(m, update, should_close)
MonitorExits == \E m \in Monitors : MonitorExit(m)
Summary == get_portfolio_summary

PortfolioNext ==
    \/ Add
    \/ Remove
    \/ StartAll
    \/ StopAll
    \/ MonitorTicks
    \/ MonitorExits
    \/ Summary

PortfolioSpec == PortfolioInit /\ [][PortfolioNext]_vars

\* ------------------------------------------------ scanner: pure functions
\* Characters of pair names, in code-point order (the order in which str
\* values compare and sort).
Chars == <<" ", "-", "9", "B", "C", "D", "E", "H", "P", "R", "S", "T", "U", "_", "b">>
Ord(c) == CHOOSE i \in DOMAIN Chars : Chars[i] = c

\* str.upper, one character at a time.
upper(s) == [i \in DOMAIN s |-> IF s[i] = "b" THEN "B" ELSE s[i]]

\* str.replace(old, ""): every non-overlapping occurrence, left to right.
RECURSIVE replace(_, _)
replace(s, old) ==
    IF Len(s) < Len(old) THEN s
    ELSE IF SubSeq(s, 1, Len(old)) = old
         THEN replace(SubSeq(s, Len(old) + 1, Len(s)), old)
         ELSE <<Head(s)>> \o replace(Tail(s), old)

\* str.strip: leading and trailing blanks removed.
RECURSIVE strip(_)
strip(s) ==
    IF s = <<>> THEN s
    ELSE IF Head(s) = " " THEN strip(Tail(s))
    ELSE IF s[Len(s)] = " " THEN strip(SubSeq(s, 1, Len(s) - 1))
    ELSE s

\* The suffixes and separators standardize_pair_name removes, in its order:
\* "-USD-PERP", "-PERP", "_USDC_PER_9", "_USDC", "USDC", "USD", "-", "_".
Removals == << <<"-", "U", "S", "D", "-", "P", "E", "R", "P">>, <<"-", "P", "E", "R", "P">>, <<"_", "U", "S", "D", "C", "_", "P", "E", "R", "_", "9">>, <<"_", "U", "S", "D", "C">>, <<"U", "S", "D", "C">>, <<"U", "S", "D">>, <<"-">>, <<"_">> >>

RECURSIVE RemoveAll(_, _)
RemoveAll(s, olds) ==
    IF olds = <<>> THEN s ELSE RemoveAll(replace(s, Head(olds)), Tail(olds))

\* standardize_pair_name: upper case, the removals in order, strip.
standardize_pair_name(pair) == strip(RemoveAll(upper(pair), Removals))

\* Platform[name.upper().replace(" ", "")]: the enum member, None where the
\* lookup raises KeyError.
PlatformMember(name) ==
    CASE name = "Hyperliquid" -> Some("HYPERLIQUID")
      [] name = "Paradex"     -> Some("PARADEX")
      [] name = "Lighter"     -> Some("LIGHTER")
      [] name = "Extended"    -> Some("EXTENDED")
      [] OTHER                -> None

\* PLATFORM_FEES[...]['taker'] and PLATFORM_SLIPPAGE, in basis points
\* (1e-4), the unit of every rate, spread and cost of the ranker.
PLATFORM_FEES(member) == IF member = "HYPERLIQUID" THEN 3 ELSE 5
PLATFORM_SLIPPAGE(member) ==
    CASE member = "HYPERLIQUID" -> 10
      [] member = "PARADEX"     -> 15
      [] member = "LIGHTER"     -> 15
      [] member = "EXTENDED"    -> 20

\* calculate_entry_cost with a free fallback for unknown venues.
calculate_entry_cost_Free(long_platform, short_platform) ==
    LET long_plat_enum == PlatformMember(long_platform)
        short_plat_enum == PlatformMember(short_platform)
    IN  IF IsNone(long_plat_enum) \/ IsNone(short_plat_enum) THEN 0
        ELSE (PLATFORM_FEES(Val(long_plat_enum)) * 2 + PLATFORM_SLIPPAGE(Val(long_plat_enum)))
             + (PLATFORM_FEES(Val(short_plat_enum)) * 2 + PLATFORM_SLIPPAGE(Val(short_plat_enum)))

\* calculate_entry_cost: the flat 0.2% when either venue is not in the
\* enum, else entry and exit fee plus slippage of both legs.  The
\* leverage argument is not used by the code.
calculate_entry_cost(long_platform, short_platform) ==
    LET long_plat_enum == PlatformMember(long_platform)
        short_plat_enum == PlatformMember(short_platform)
    IN  IF IsNone(long_plat_enum) \/ IsNone(short_plat_enum) THEN 20
        ELSE (PLATFORM_FEES(Val(long_plat_enum)) * 2 + PLATFORM_SLIPPAGE(Val(long_plat_enum)))
             + (PLATFORM_FEES(Val(short_plat_enum)) * 2 + PLATFORM_SLIPPAGE(Val(short_plat_enum)))

\* calculate_net_spread: gross - entry_cost / hold_hours * leverage, kept
\* exact as the fraction num / den (den = hold_hours > 0).
calculate_net_spread(gross_spread_1h, long_platform, short_platform, leverage, hold_hours) ==
    [num |-> gross_spread_1h * hold_hours - calculate_entry_cost(long_platform, short_platform) * leverage,
     den |-> hold_hours]

\* FundingData (models.py), one snapshot of a pair on a venue;
\* __post_init__ turns a None rate into 0 and a None max_leverage into 1.
FundingData(pair, rate_1h, platform, max_leverage) ==
    [pair |-> pair, platform |-> platform,
     rate_1h |-> IF IsNone(rate_1h) THEN 0 ELSE Val(rate_1h),
     max_leverage |-> IF IsNone(max_leverage) THEN 1 ELSE Val(max_leverage)]

\* Pair names as venues spell them.
BTC == <<"B", "T", "C">>
ETH == <<"E", "T", "H">>

\* What get_funding_rates_sync of a venue returns when it succeeds.
VenueData(venue) ==
    CASE venue = "hyperliquid" -> <<FundingData(BTC, Some(1), "Hyperliquid", Some(1))>>
      [] venue = "paradex"     -> <<FundingData(BTC, Some(3), "Paradex", Some(1)), FundingData(ETH, Some(5), "Paradex", Some(1))>>
      [] venue = "lighter"     -> <<FundingData(BTC, Some(2), "Lighter", Some(1)), FundingData(ETH, Some(2), "Lighter", Some(1))>>

\* How fetching one venue ends: no configuration stored (skipped),
\* PlatformFactory.create raises, get_funding_rates_sync raises, or data.
FetchOutcomes == {"no_config", "create_raises", "fetch_raises", "ok"}

\* The DataFrame of the ranker: one row per snapshot, the pair standardized.
Frame(all_funding_data) ==
    [i \in DOMAIN all_funding_data |-> [all_funding_data[i] EXCEPT !.pair = standardize_pair_name(@)]]

\* str comparison: lexicographic by code point.
RECURSIVE StrLess(_, _)
StrLess(a, b) ==
    IF b = <<>> THEN FALSE
    ELSE IF a = <<>> THEN TRUE
    ELSE IF Head(a) = Head(b) THEN StrLess(Tail(a), Tail(b))
    ELSE Ord(Head(a)) < Ord(Head(b))

\* Rows of the pivot table: the distinct pairs of the frame, sorted.
RECURSIVE SortedPairs(_)
SortedPairs(names) ==
    IF names = {} THEN <<>>
    ELSE LET least == CHOOSE n \in names : \A m \in names \ {n} : StrLess(n, m)
         IN  <<least>> \o SortedPairs(names \ {least})
PivotPairs(data) == SortedPairs({data[i].pair : i \in DOMAIN data})

\* Columns of the pivot table: the platforms, sorted; a platform without
\* snapshots only has missing cells.
PivotColumns == <<"Aster", "Extended", "Hyperliquid", "Lighter", "Paradex">>

\* pivot_table(values='rate_1h', aggfunc='first'): the first rate listed
\* for the pair on the platform, None for a missing cell.
RECURSIVE FirstRate(_, _, _)
FirstRate(data, pair, platform) ==
    IF data = <<>> THEN None
    ELSE IF Head(data).pair = pair /\ Head(data).platform = platform
         THEN Some(Head(data).rate_1h)
         ELSE FirstRate(Tail(data), pair, platform)

\* pivot_table(values='max_leverage', aggfunc='first').
RECURSIVE FirstLeverage(_, _, _)
FirstLeverage(data, pair, platform) ==
    IF data = <<>> THEN None
    ELSE IF Head(data).pair = pair /\ Head(data).platform = platform
         THEN Some(Head(data).max_leverage)
         ELSE FirstLeverage(Tail(data), pair, platform)

Min(a, b) == IF a <= b THEN a ELSE b

\* The spread filter always passing.
BelowMinSpread_Never(spread_1h, min_spread) == FALSE

\* The spread filter: `if spread_1h < min_spread: continue'.
BelowMinSpread(spread_1h, min_spread) == spread_1h < min_spread

\* The leverage filter: `if min_lev < min_leverage: continue'.
BelowMinLeverage(min_lev, min_leverage) == min_lev < min_leverage

\* The short leg taken from the first venue above the lowest rate.
ShortColumn_First(cols, highs, lows) ==
    LET above == SelectSeq(cols, LAMBDA c : c # lows[1]) IN
    IF above = <<>> THEN highs[1] ELSE above[1]

\* rates.idxmax(): the first column holding the highest rate.
ShortColumn(cols, highs, lows) == highs[1]

\* The test that skips a pair, without either check.
SkipsPair_Never(cols, long_platform, short_platform) == FALSE

\* The test that skips a pair, with the count of venues only.
SkipsPair_CountOnly(cols, long_platform, short_platform) == Len(cols) < 2

\* `if len(rates) < 2: continue' and `if long_platform == short_platform:
\* continue'.
SkipsPair(cols, long_platform, short_platform) ==
    Len(cols) < 2 \/ long_platform = short_platform

\* The body of the ranker's loop for one pair: None when the pair is
\* skipped, else the opportunity (long on the lowest rate, short on the
\* highest; idxmin and idxmax take the first column among equals).
PairOpportunity(data, pair, min_spread, min_leverage) ==
    LET cols == SelectSeq(PivotColumns, LAMBDA c : IsSome(FirstRate(data, pair, c)))
        rate(c) == Val(FirstRate(data, pair, c))
        lows == SelectSeq(cols, LAMBDA c : \A i \in 1..Len(cols) : rate(c) <= rate(cols[i]))
        highs == SelectSeq(cols, LAMBDA c : \A i \in 1..Len(cols) : rate(c) >= rate(cols[i]))
        long_platform == IF cols = <<>> THEN "" ELSE lows[1]
        short_platform == IF cols = <<>> THEN "" ELSE ShortColumn(cols, highs, lows)
        spread_1h == rate(short_platform) - rate(long_platform)
        found == IsSome(FirstLeverage(data, pair, long_platform)) /\ IsSome(FirstLeverage(data, pair, short_platform))
        long_leverage == IF found THEN Val(FirstLeverage(data, pair, long_platform)) ELSE 1
        short_leverage == IF found THEN Val(FirstLeverage(data, pair, short_platform)) ELSE 1
        min_lev == Min(long_leverage, short_leverage)
    IN  IF SkipsPair(cols, long_platform, short_platform) THEN None
        ELSE IF BelowMinSpread(spread_1h, min_spread) THEN None
        ELSE IF BelowMinLeverage(min_lev, min_leverage) THEN None
        ELSE Some([pair |-> pair,
                   long_platform |-> long_platform, long_rate_1h |-> rate(long_platform),
                   long_leverage |-> long_leverage,
                   short_platform |-> short_platform, short_rate_1h |-> rate(short_platform),
                   short_leverage |-> short_leverage,
                   spread_1h |-> spread_1h, min_leverage |-> min_lev,
                   score_1h |-> spread_1h * min_lev * 100,
                   net_spread_1h |-> calculate_net_spread(spread_1h, long_platform, short_platform, min_lev, 24),
                   entry_cost_pct |-> calculate_entry_cost(long_platform, short_platform)])

\* Insertion that puts a new opportunity before its equals and betters.
InsertByScore_Front(sorted, opp) == <<opp>> \o sorted

\* list.sort(key=score_1h, reverse=True): stable insertion by falling
\* score.
RECURSIVE InsertByScore(_, _)
InsertByScore(sorted, opp) ==
    IF sorted = <<>> THEN <<opp>>
    ELSE IF Head(sorted).score_1h >= opp.score_1h
         THEN <<Head(sorted)>> \o InsertByScore(Tail(sorted), opp)
         ELSE <<opp>> \o sorted

RECURSIVE RankPairs(_, _, _, _)
RankPairs(data, pairs, min_spread, min_leverage) ==
    IF pairs = <<>> THEN <<>>
    ELSE LET rest == RankPairs(data, SubSeq(pairs, 1, Len(pairs) - 1), min_spread, min_leverage)
             opp == PairOpportunity(data, pairs[Len(pairs)], min_spread, min_leverage)
         IN  IF IsNone(opp) THEN rest ELSE InsertByScore(rest, Val(opp))

\* opportunities[:top_n] for top_n >= 0.
TopN(sorted, top_n) == SubSeq(sorted, 1, Min(top_n, Len(sorted)))

\* find_funding_opportunities (include_net_spread left at True): empty
\* input gives [], else frame, pivot, one pass over the pairs, sort, cut.
find_funding_opportunities(all_funding_data, min_spread, min_leverage, top_n) ==
    IF all_funding_data = <<>> THEN <<>>
    ELSE LET data == Frame(all_funding_data)
         IN  TopN(RankPairs(data, PivotPairs(data), min_spread, min_leverage), top_n)

\* ----------------------------------------------------------- ScannerPage
\* A check box of the scanner page is ticked or unticked.
toggle_platform(venue) ==
    /\ platform_vars' = IF venue \in platform_vars THEN platform_vars \ {venue}
                         ELSE platform_vars \cup {venue}
    /\ UNCHANGED <<is_scanning, opportunities, last_scan_time, scan_threads,
                   otherVars, pureVars, portVars>>

\* ScannerPage._start_scan (main thread): refuse while is_scanning, else
\* set the flag and start a _scan_thread thread.
start_scan ==
    /\ IF is_scanning
       THEN UNCHANGED <<is_scanning, scan_threads>>
       ELSE /\ \E t \in ScanIds :
                 /\ scan_threads[t].pc = "none"
                 /\ \A u \in ScanIds : u < t => scan_threads[u].pc # "none"
                 /\ scan_threads' = [scan_threads EXCEPT ![t].pc = "begin"]
            /\ is_scanning' = TRUE
    /\ UNCHANGED <<platform_vars, opportunities, last_scan_time, otherVars, pureVars, portVars>>

\* _scan_thread up to the loop: read the ticked venues; with none ticked
\* go straight to _scan_callback([], "No platforms selected").
scan_thread_begin(t) ==
    /\ scan_threads[t].pc = "begin"
    /\ LET enabled == SelectSeq(ScanVenues, LAMBDA v : v \in platform_vars) IN
       scan_threads' = [scan_threads EXCEPT ![t] =
           IF enabled = <<>> THEN [NoScan EXCEPT !.pc = "callback"]
           ELSE [NoScan EXCEPT !.enabled_platforms = enabled, !.todo = enabled,
                               !.pc = "fetch"]]
    /\ UNCHANGED <<platform_vars, is_scanning, opportunities, last_scan_time,
                   otherVars, pureVars, portVars>>

\* A scan that gives up at the first venue error.
AfterVenueError_Abort(th) == [NoScan EXCEPT !.pc = "callback"]

\* The inner `except' of the venue loop: log and go on with the next venue.
AfterVenueError(th) == th

\* One pass of the venue loop.
scan_thread_fetch(t, outcome) ==
    /\ scan_threads[t].pc = "fetch"
    /\ scan_threads[t].todo # <<>>
    /\ LET th == scan_threads[t]
           venue == Head(th.todo)
           th1 == [th EXCEPT !.todo = Tail(th.todo),
                             !.fetched = Append(th.fetched, [venue |-> venue, outcome |-> outcome])]
       IN  scan_threads' = [scan_threads EXCEPT ![t] =
             CASE outcome = "no_config" -> th1
               [] outcome \in {"create_raises", "fetch_raises"} -> AfterVenueError(th1)
               [] outcome = "ok" ->
                    [th1 EXCEPT !.all_funding_data = th.all_funding_data \o VenueData(venue)]]
    /\ UNCHANGED <<platform_vars, is_scanning, opportunities, last_scan_time,
                   otherVars, pureVars, portVars>>

\* After the loop: run the ranker on all_funding_data, set last_scan_time
\* and enter _scan_callback with the opportunities.
scan_thread_rank(t) ==
    /\ scan_threads[t].pc = "fetch"
    /\ scan_threads[t].todo = <<>>
    /\ scan_threads' = [scan_threads EXCEPT ![t] =
           [NoScan EXCEPT
              !.ranked = TRUE,
              !.result = find_funding_opportunities(scan_threads[t].all_funding_data, 0, 1, 25),
              !.pc = "callback"]]
    /\ last_scan_time' = Some(t)
    /\ UNCHANGED <<platform_vars, is_scanning, opportunities, otherVars, pureVars, portVars>>

\* _scan_callback, first statement (on the scan thread): is_scanning = False
scan_callback_flag(t) ==
    /\ scan_threads[t].pc = "callback"
    /\ is_scanning' = FALSE
    /\ scan_threads' = [scan_threads EXCEPT ![t].pc = "store"]
    /\ UNCHANGED <<platform_vars, opportunities, last_scan_time, otherVars, pureVars, portVars>>

\* _scan_callback, second statement: self.opportunities = opportunities;
\* the thread then schedules the redraw and ends.
scan_callback_store(t) ==
    /\ scan_threads[t].pc = "store"
    /\ opportunities' = scan_threads[t].result
    /\ scan_threads' = [scan_threads EXCEPT ![t] = [NoScan EXCEPT !.pc = "done"]]
    /\ UNCHANGED <<platform_vars, is_scanning, last_scan_time, otherVars, pureVars, portVars>>

ScanInit ==
    /\ platforms = RegistryKeys
    /\ opportunity = [pair |-> "BTC", long_platform |-> "Hyperliquid",
                      short_platform |-> "Lighter"]
    /\ TradingIdle
    /\ PortfolioIdle
    /\ ScannerIdle
    /\ PureIdle

Toggle == \E venue \in AllVenues : toggle_platform(venue)
StartScan == start_scan
ScanBegin == \E t \in ScanIds : scan_thread_begin(t)
ScanFetch == \E t \in ScanIds, outcome \in FetchOutcomes : scan_thread_fetch(t, outcome)
ScanRank == \E t \in ScanIds : scan_thread_rank(t)
ScanFlag == \E t \in ScanIds : scan_callback_flag(t)
ScanStore == \E t \in ScanIds : scan_callback_store(t)

ScanNext ==
    \/ Toggle
    \/ StartScan
    \/ ScanBegin
    \/ ScanFetch
    \/ ScanRank
    \/ ScanFlag
    \/ ScanStore

ScanSpec == ScanInit /\ [][ScanNext]_vars

\* ------------------------------------------- the ranker as a function
\* Snapshots handed to the ranker: three venues quote BTC under their own
\* spellings at three rates, two quote ETH, and one more snapshot repeats
\* BTC on a venue under another spelling, at the lowest rate and without a
\* leverage.
SnapshotSamples ==
    {FundingData(BTC, Some(1), "Hyperliquid", Some(20)),
     FundingData(BTC \o <<"-", "U", "S", "D", "-", "P", "E", "R", "P">>, Some(4), "Paradex", Some(10)),
     FundingData(BTC \o <<"_", "U", "S", "D", "C">>, Some(2), "Lighter", Some(5)),
     FundingData(ETH, Some(2), "Hyperliquid", Some(10)),
     FundingData(ETH \o <<"-", "U", "S", "D">>, Some(5), "Lighter", Some(3)),
     FundingData(BTC \o <<"-", "U", "S", "D">>, Some(1), "Paradex", None)}

\* A call of find_funding_opportunities on funding_input: its arguments,
\* its local DataFrame df and the list it returns.
Rank(min_spread, min_leverage, top_n) ==
    /\ IsNone(rank_call)
    /\ rank_call' = Some([min_spread |-> min_spread, min_leverage |-> min_leverage,
                          top_n |-> top_n, df |-> Frame(funding_input),
                          result |-> find_funding_opportunities(funding_input, min_spread,
                                                                min_leverage, top_n)])
    /\ UNCHANGED <<pair_runs, funding_input, net_call, otherVars, portVars, scanVars>>

RankInit ==
    /\ platforms = RegistryKeys
    /\ opportunity = [pair |-> "BTC", long_platform |-> "Hyperliquid",
                      short_platform |-> "Lighter"]
    /\ TradingIdle
    /\ PortfolioIdle
    /\ ScannerIdle
    /\ pair_runs = <<>>
    /\ funding_input \in UNION {[1..n -> SnapshotSamples] : n \in 0..MaxSnapshots}
    /\ rank_call = None
    /\ net_call = None

RankNext ==
    \E min_spread \in {0, 3}, min_leverage \in {1, 5}, top_n \in {1, 2} :
        Rank(min_spread, min_leverage, top_n)

RankSpec == RankInit /\ [][RankNext]_vars

\* --------------------------------------- calculate_net_spread as a function
NetVenues == {"Hyperliquid", "Paradex", "Lighter", "Extended", "Aster"}

\* A call of calculate_net_spread with the arguments drawn at the start.
NetSpreadCall ==
    /\ IsNone(net_call.result)
    /\ net_call' = [net_call EXCEPT !.result =
            Some(calculate_net_spread(net_call.gross_spread_1h, net_call.long_platform,
                                      net_call.short_platform, net_call.leverage,
                                      net_call.hold_hours))]
    /\ UNCHANGED <<pair_runs, funding_input, rank_call, otherVars, portVars, scanVars>>

NetInit ==
    /\ platforms = RegistryKeys
    /\ opportunity = [pair |-> "BTC", long_platform |-> "Hyperliquid",
                      short_platform |-> "Lighter"]
    /\ TradingIdle
    /\ PortfolioIdle
    /\ ScannerIdle
    /\ pair_runs = <<>>
    /\ funding_input = <<>>
    /\ rank_call = None
    /\ net_call \in [gross_spread_1h : {-10, 0, 1, 30}, long_platform : NetVenues,
                     short_platform : NetVenues, leverage : {1, 5, 20},
                     hold_hours : {1, 24}, result : {None}]

NetSpec == NetInit /\ [][NetSpreadCall]_vars

\* ------------------------------------- standardize_pair_name as a function
PairNames == UNION {[1..n -> {"U", "S", "D", "C", "-", "_", " ", "b"}] : n \in 0..MaxLen}

\* standardize_pair_name applied to the latest name of pair_runs: the
\* first run standardizes the input, the second its result.
StandardizeCall ==
    /\ pair_runs # <<>>
    /\ Len(pair_runs) < 3
    /\ pair_runs' = Append(pair_runs, standardize_pair_name(pair_runs[Len(pair_runs)]))
    /\ UNCHANGED <<funding_input, rank_call, net_call, otherVars, portVars, scanVars>>

PairInit ==
    /\ platforms = RegistryKeys
    /\ opportunity = [pair |-> "BTC", long_platform |-> "Hyperliquid",
                      short_platform |-> "Lighter"]
    /\ TradingIdle
    /\ PortfolioIdle
    /\ ScannerIdle
    /\ pair_runs \in {<<name>> : name \in PairNames}
    /\ funding_input = <<>>
    /\ rank_call = None
    /\ net_call = None

PairSpec == PairInit /\ [][StandardizeCall]_vars

\* ====================================================== properties
LongVenue == Lower(opportunity.long_platform)
ShortVenue == Lower(opportunity.short_platform)
IsCall(c, platform, op) == c.platform = platform /\ c.op = op
CloseCalls == SelectSeq(calls, LAMBDA c : c.op = "close_position")
LongFilled == IsSome(long_result) /\ Val(long_result).success
ShortFilled == IsSome(short_result) /\ Val(short_result).success
ExecReturned == exec_pc = "returned"
ExecDone == exec_pc \in {"returned", "raised"}

\* The status a caller reads off execute_delta_neutral's return value.
ExecStatus(ret) ==
    LET m == ret.msg IN
    IF ret.success THEN "BothPlaced"
    ELSE IF m[Len(m)] = "(rolled back successfully)" THEN "RolledBack"
    ELSE IF Len(m) >= 2 /\ m[Len(m) - 1] = "(ROLLBACK FAILED - CHECK" THEN "RollbackFailed"
    ELSE "Aborted"

\* C1: the short venue gets its order only after the long order returned
\* success; once the long order has returned failure the short venue has
\* no order call and no close_position call has been issued on any venue.
C1_ShortOnlyAfterLongSuccess ==
    /\ \A i \in 1..Len(calls) :
         IsCall(calls[i], ShortVenue, "place_market_order") =>
            /\ LongFilled
            /\ \E j \in 1..(i - 1) : IsCall(calls[j], LongVenue, "place_market_order")
    /\ (IsSome(long_result) /\ ~Val(long_result).success) =>
         \A i \in 1..Len(calls) :
            /\ ~IsCall(calls[i], ShortVenue, "place_market_order")
            /\ calls[i].op # "close_position"
C1_Witness ==
    /\ ExecReturned
    /\ IsSome(long_result) /\ ~Val(long_result).success

\* C2: when the long order succeeded and the short order returned failure,
\* execute_delta_neutral has, at its return, issued exactly one
\* close_position call: on the long venue, for the strategy's pair.
C2_OneRollbackCloseOnLong ==
    (ExecReturned /\ LongFilled /\ IsSome(short_result) /\ ~Val(short_result).success) =>
        /\ Len(CloseCalls) = 1
        /\ CloseCalls[1].platform = LongVenue
        /\ CloseCalls[1].platform # ShortVenue
        /\ CloseCalls[1].pair = opportunity.pair
C2_Witness ==
    /\ ExecReturned /\ LongFilled
    /\ IsSome(short_result) /\ ~Val(short_result).success
    /\ IsSome(rollback_result)

\* C3: after a failed short leg the return value is a failure whose status
\* is RolledBack exactly when the compensating close succeeded and
\* RollbackFailed exactly when it failed.
C3_RollbackOutcomesDistinct ==
    (ExecReturned /\ IsSome(rollback_result)) =>
        /\ ~Val(exec_ret).success
        /\ ExecStatus(Val(exec_ret)) =
              (IF Val(rollback_result).success THEN "RolledBack" ELSE "RollbackFailed")
C3_Witness ==
    /\ ExecReturned /\ IsSome(rollback_result)
    /\ ~Val(rollback_result).success
    /\ ExecStatus(Val(exec_ret)) = "RollbackFailed"

\* C4: with no adapter registered for the long venue or for the short
\* venue, execute_delta_neutral issues no adapter call at all and returns
\* failure with both positions of the strategy unset.
C4_MissingAdapterAborts ==
    (LongVenue \notin platforms \/ ShortVenue \notin platforms) =>
        /\ calls = <<>>
        /\ legOpen = [long |-> FALSE, short |-> FALSE]
        /\ exec_pc \in {"idle", "returned"}
        /\ ExecReturned =>
             /\ ~Val(exec_ret).success
             /\ Val(strategy).long_position = None
             /\ Val(strategy).short_position = None
C4_Witness ==
    /\ ExecReturned
    /\ LongVenue \in platforms /\ ShortVenue \notin platforms

\* C5: execute_delta_neutral ends with a success return exactly when both
\* orders returned success; the success return carries a LONG position on
\* the long venue and a SHORT position on the short venue with the orders'
\* filled prices as entry prices, and both order ids; every other return
\* leaves both positions unset.
Carries(ret, order_id) == \E k \in 1..Len(ret.msg) : ret.msg[k] = Str(order_id)
PositionsFromFills ==
    LET lp == Val(strategy).long_position
        sp == Val(strategy).short_position IN
    /\ IsSome(lp) /\ IsSome(sp)
    /\ Val(lp).side = "long" /\ Val(lp).platform = opportunity.long_platform
    /\ Val(sp).side = "short" /\ Val(sp).platform = opportunity.short_platform
    /\ Val(lp).entry_price = Val(Val(long_result).filled_price)
    /\ Val(sp).entry_price = Val(Val(short_result).filled_price)
C5_SuccessIffBothFilled ==
    /\ ExecDone =>
         ((ExecReturned /\ Val(exec_ret).success) <=> (LongFilled /\ ShortFilled))
    /\ (ExecReturned /\ Val(exec_ret).success) =>
         /\ PositionsFromFills
         /\ Carries(Val(exec_ret), Val(long_result).order_id)
         /\ Carries(Val(exec_ret), Val(short_result).order_id)
    /\ (ExecReturned /\ ~Val(exec_ret).success) =>
         /\ Val(strategy).long_position = None
         /\ Val(strategy).short_position = None

\* C6: a run of execute_delta_neutral whose adapters all returned results
\* ends in a return whose status is BothPlaced, RolledBack, RollbackFailed
\* or an abort before the long leg; at the return both legs are open (only
\* with BothPlaced), none (abort, RolledBack) or the long leg alone (only
\* RollbackFailed); the short leg is never open while the long leg is not.
C6_OutcomeMatchesLegs ==
    /\ (ExecDone /\ ~adapterRaised /\ close_pc = "idle") =>
         /\ ExecReturned
         /\ LET st == ExecStatus(Val(exec_ret)) IN
            /\ st = "BothPlaced" <=> (legOpen.long /\ legOpen.short)
            /\ st \in {"Aborted", "RolledBack"} <=> (~legOpen.long /\ ~legOpen.short)
            /\ st = "RollbackFailed" <=> (legOpen.long /\ ~legOpen.short)
    /\ close_pc = "idle" => ~(legOpen.short /\ ~legOpen.long)

\* C7: a run of close_delta_neutral that passed its preconditions has, at
\* its return, invoked close_position on the long venue and on the short
\* venue, whatever the first close returned.
C7_BothLegsAttempted ==
    (close_pc = "returned" /\ IsSome(exec_ret) /\ Val(exec_ret).success) =>
        /\ \E i \in 1..Len(calls) : IsCall(calls[i], LongVenue, "close_position")
        /\ \E i \in 1..Len(calls) : IsCall(calls[i], ShortVenue, "close_position")

\* The outcome a caller reads off close_delta_neutral's return value.
CloseOutcome(ret) ==
    IF ret.success THEN "both_closed"
    ELSE IF ret.msg[1] = "Failed to close SHORT" THEN "short_left_open"
    ELSE IF ret.msg[1] = "Failed to close LONG" THEN "none_closed"
    ELSE "not_attempted"

\* C8: the result of a close_delta_neutral run that passed its
\* preconditions tells the legs left open: success when both are closed,
\* the SHORT failure when the short leg alone is left open, the LONG
\* failure when neither leg was closed.
C8_CloseResultMatchesLegs ==
    (close_pc = "returned" /\ IsSome(exec_ret) /\ Val(exec_ret).success) =>
        LET out == CloseOutcome(Val(close_ret)) IN
        /\ out \in {"both_closed", "short_left_open", "none_closed"}
        /\ out = "both_closed" <=> (~legOpen.long /\ ~legOpen.short)
        /\ out = "short_left_open" <=> (~legOpen.long /\ legOpen.short)
        /\ out = "none_closed" <=> (legOpen.long /\ legOpen.short)
C8_Witness ==
    /\ close_pc = "returned" /\ IsSome(exec_ret) /\ Val(exec_ret).success
    /\ CloseOutcome(Val(close_ret)) = "short_left_open"
    /\ ~legOpen.long /\ legOpen.short

\* C9: once close_delta_neutral is in progress for the strategy, no tick
\* of its monitor emits an auto_close alert.
CloseInProgress == close_pc \in {"await_long_close", "await_short_close"}
AutoCloseEmitted ==
    \E k \in (Len(alerts) + 1)..Len(alerts') : alerts'[k].type = "auto_close"
C9_NoAutoCloseDuringClose ==
    [][CloseInProgress => ~AutoCloseEmitted]_vars

\* C10: a tick that fails (position not found, fetch error, error inside
\* the tick) leaves is_monitoring as it was, and every tick in which both
\* legs are found hands a PositionUpdate to the registered update callback.
TickEnds == tick_result = "running" /\ tick_result' # "running"
C10_FailedTicksHarmless ==
    [][TickEnds =>
         /\ tick_result' \in {"skipped", "error"} => is_monitoring' = is_monitoring
         /\ (tick_result' \in {"ok", "error"} /\ manager.on_update_callback # "none")
               => Len(updates') = 1]_vars

\* ------------------------------------------------ the monitor's triggers
\* What a tick computed, read off the strategy it updated.
TickTotalPnl == get_total_pnl(Val(strategy'))
TickSpread ==
    Val(Val(strategy').short_position).unrealized_pnl_usd
      - Val(Val(strategy').long_position).unrealized_pnl_usd
\* The tick found both legs (it ran to its end or failed inside).
BothLegsFound == tick_result' \in {"ok", "error"}
AlertsOfType(as, type) == SelectSeq(as, LAMBDA a : a.type = type)
HasObserver == manager.on_alert_callback # "none"

\* C11: for every configured take_profit_usd and every alert
\* configuration, a tick whose total PnL is at or above take_profit_usd
\* sets is_monitoring to false and hands exactly one auto_close alert to
\* the alert observer.
C11_TakeProfitStopsAndAlerts ==
    [][(/\ TickEnds /\ BothLegsFound /\ HasObserver
        /\ IsSome(Val(strategy).take_profit_usd)
        /\ TickTotalPnl >= Val(Val(strategy).take_profit_usd))
       => /\ is_monitoring' = FALSE
          /\ Len(AlertsOfType(alerts', "auto_close")) = 1]_vars

\* The first trigger that holds on the tick, in the order take-profit,
\* stop-loss, funding reversal; "later" when none of the three holds.
FirstTrigger ==
    LET s == Val(strategy) IN
    IF IsSome(s.take_profit_usd) /\ TickTotalPnl >= Val(s.take_profit_usd)
    THEN "take_profit"
    ELSE IF IsSome(s.stop_loss_usd) /\ TickTotalPnl <= Val(s.stop_loss_usd)
    THEN "stop_loss"
    ELSE IF s.auto_close_on_reversal /\ TickSpread < 0
    THEN "reversal"
    ELSE "later"

\* C12: on a tick where triggers hold, exactly one auto_close alert is
\* emitted, with the reason of the first trigger in the order take-profit,
\* stop-loss, funding reversal, max hold time, and monitoring is switched
\* off; a tick begins only while is_monitoring is true.
C12_FirstTriggerWins ==
    [][/\ (TickEnds /\ BothLegsFound /\ HasObserver) =>
            LET closes == AlertsOfType(alerts', "auto_close") IN
            IF FirstTrigger # "later"
            THEN /\ Len(closes) = 1
                 /\ closes[1].message = FirstTrigger
                 /\ is_monitoring' = FALSE
            ELSE /\ Len(closes) <= 1
                 /\ Len(closes) = 1 =>
                       /\ closes[1].message = "max_hold"
                       /\ IsSome(Val(strategy).max_hold_hours)
                       /\ is_monitoring' = FALSE
       /\ ticks' # ticks => is_monitoring]_vars

\* C13: the monitor loop invokes no adapter operation but get_positions,
\* and its steps, the ticks on which a trigger fires included, issue no
\* order or close call and leave the venues' positions as they are.
MonitorStep == loops' # loops
C13_MonitorOnlyReads ==
    /\ [](\A c \in mon_calls : c.op = "get_positions")
    /\ [][MonitorStep => (calls' = calls /\ legOpen' = legOpen)]_vars
C13_Witness ==
    /\ tick_result = "ok" /\ ~is_monitoring
    /\ Len(AlertsOfType(alerts, "auto_close")) = 1
    /\ Cardinality(mon_calls) = 2

\* C14: with an update callback registered, every tick of the monitor
\* loop ends with one PositionUpdate handed to the callback.
C14_EveryTickUpdates ==
    [][(TickEnds /\ manager.on_update_callback # "none") => Len(updates') = 1]_vars

\* C15: stop_monitoring only clears the flag: it leaves a tick in progress
\* untouched, and a tick finishing after the stop still computes the PnL
\* and publishes its PositionUpdate; a loop leaves only at its
\* `while' test with the flag false, begins a tick only with the flag
\* true, and once it has left it stays so.
StopStep == is_monitoring /\ ~is_monitoring' /\ tick_result' = tick_result
C15_CooperativeStop ==
    [][/\ StopStep =>
            (loops' = loops /\ alerts' = alerts /\ updates' = updates /\ ticks' = ticks)
       /\ (TickEnds /\ ~is_monitoring /\ tick_result' = "ok") =>
            /\ IsSome(last_update')
            /\ Val(last_update').total_pnl = TickTotalPnl
            /\ manager.on_update_callback # "none" => updates' = <<Val(last_update')>>
       /\ \A i \in DOMAIN loops :
            /\ (loops[i].pc # "exited" /\ loops'[i].pc = "exited") =>
                  (loops[i].pc \in {"ready", "sleep"} /\ ~is_monitoring)
            /\ loops[i].pc = "exited" => loops'[i].pc = "exited"
       /\ ticks' # ticks => is_monitoring]_vars
C15_Witness ==
    /\ \E i \in DOMAIN loops : loops[i].pc = "fetch_short"
    /\ ~is_monitoring /\ tick_result = "running"

\* C16: on every tick that found both legs, each risk check that is
\* switched on and true emits exactly one alert of its type, and each
\* check that is false emits none: profit threshold, loss threshold,
\* funding reversal, and liquidation proximity of each leg.
Count(cond) == IF cond THEN 1 ELSE 0
LegNear(pos) ==
    /\ IsSome(pos.liquidation_price) /\ IsSome(pos.current_price)
    /\ NearLiquidation(pos)
C16_ChecksIndependent ==
    [][(TickEnds /\ BothLegsFound /\ HasObserver /\ manager.alert_config.enabled) =>
         LET cfg == manager.alert_config
             lp == Val(Val(strategy').long_position)
             sp == Val(Val(strategy').short_position) IN
         /\ Len(AlertsOfType(alerts', "profit")) =
               Count(cfg.alert_on_profit_threshold /\ TickTotalPnl >= cfg.profit_threshold_usd)
         /\ Len(AlertsOfType(alerts', "loss")) =
               Count(cfg.alert_on_loss_threshold /\ TickTotalPnl <= cfg.loss_threshold_usd)
         /\ Len(AlertsOfType(alerts', "reversal")) =
               Count(cfg.alert_on_funding_reversal /\ TickSpread < 0)
         /\ Len(AlertsOfType(alerts', "liquidation_risk")) =
               Count(cfg.alert_on_liquidation_risk /\ LegNear(lp))
                 + Count(cfg.alert_on_liquidation_risk /\ LegNear(sp))]_vars

\* C17: add_strategy leaves the added monitor monitoring, and
\* remove_strategy leaves the removed monitor not monitoring and the id
\* out of the portfolio.
C17_AddStartsRemoveStops ==
    [][\A id \in StrategyIds :
         /\ (position_managers'[id] # position_managers[id] /\ IsSome(position_managers'[id]))
               => pm_is_monitoring'[Val(position_managers'[id])]
         /\ (IsSome(position_managers[id]) /\ IsNone(position_managers'[id]))
               => ~pm_is_monitoring'[Val(position_managers[id])]]_vars

\* What one portfolio entry contributes: the latest update of its monitor,
\* nothing when the id is not in the portfolio or no update exists yet.
EntryUpdate(id) ==
    IF IsSome(position_managers[id]) THEN pm_last_update[Val(position_managers[id])]
    ELSE None
EntryPnl(id) == IF IsSome(EntryUpdate(id)) THEN Val(EntryUpdate(id)).total_pnl ELSE 0
EntryFunding(id) ==
    IF IsSome(EntryUpdate(id)) THEN Val(EntryUpdate(id)).funding_accumulated ELSE 0
EntryAtRisk(id) ==
    IF IsSome(EntryUpdate(id)) /\ Val(EntryUpdate(id)).is_at_risk THEN 1 ELSE 0

\* C18: the value returned by get_portfolio_summary has total PnL and
\* total funding equal to the sums of the latest updates over the
\* portfolio's entries, and num_at_risk equal to the number of entries
\* whose latest update is at risk; removed monitors and monitors without
\* an update add nothing; the call changes no monitor or portfolio state.
C18_SummaryIsRollup ==
    /\ [](IsSome(summary) =>
           /\ Val(summary).total_pnl_usd = EntryPnl("s1") + EntryPnl("s2")
           /\ Val(summary).total_funding_usd = EntryFunding("s1") + EntryFunding("s2")
           /\ Val(summary).num_at_risk = EntryAtRisk("s1") + EntryAtRisk("s2"))
    /\ [][IsSome(summary') =>
            UNCHANGED <<position_managers, pm_is_monitoring, pm_loop, pm_last_update>>]_vars
C18_Witness ==
    /\ IsSome(summary)
    /\ position_managers["s1"] = None /\ position_managers["s2"] = Some("m2")
    /\ IsSome(pm_last_update["m1"]) /\ IsSome(pm_last_update["m2"])
    /\ Val(summary).total_pnl_usd = -29 /\ Val(summary).num_at_risk = 1

\* The snapshots of the venues fetched with success, in fetch order.
RECURSIVE CollectOk(_)
CollectOk(fetched) ==
    IF fetched = <<>> THEN <<>>
    ELSE CollectOk(SubSeq(fetched, 1, Len(fetched) - 1)) \o
         (IF fetched[Len(fetched)].outcome = "ok"
          THEN VenueData(fetched[Len(fetched)].venue) ELSE <<>>)
VenueFailed(f) == f.outcome \in {"create_raises", "fetch_raises"}

\* C19: in a scan, a venue whose adapter construction or fetch fails adds
\* no snapshot and does not end the scan: the scan leaves its venue loop
\* only after every enabled venue was visited, the snapshots of the venues
\* that answered are all collected, and the ranker is run on exactly those.
C19_VenueFailureIsolated ==
    [][\A t \in ScanIds :
         LET th == scan_threads[t] IN
         /\ th.all_funding_data = CollectOk(th.fetched)
         /\ (th.pc = "fetch" /\ scan_threads'[t].pc # "fetch") =>
               /\ [i \in 1..Len(th.fetched) |-> th.fetched[i].venue] = th.enabled_platforms
               /\ scan_threads'[t].pc = "callback"
               /\ scan_threads'[t].ranked
               /\ scan_threads'[t].result = find_funding_opportunities(CollectOk(th.fetched), 0, 1, 25)]_vars
C19_Witness ==
    \E t \in ScanIds :
        LET th == scan_threads[t] IN
        /\ th.pc = "fetch" /\ th.todo = <<>> /\ Len(th.fetched) = 3
        /\ VenueFailed(th.fetched[1])
        /\ th.fetched[2].outcome = "ok" /\ th.fetched[3].outcome = "ok"
        /\ Len(find_funding_opportunities(th.all_funding_data, 0, 1, 25)) = 2

\* C20: at most one scan is in flight at any time: no scan thread is
\* started while another has not yet handed over its results.
ScansInFlight == {t \in ScanIds : scan_threads[t].pc \notin {"none", "done"}}
C20_OneScanInFlight == Cardinality(ScansInFlight) <= 1


\* ------------------------------------------------------------ the ranker
\* The rows of the call's DataFrame that count for an asset (the first
\* listed of each venue), the venues quoting it and its extremal rates.
Rows == Val(rank_call).df
Quotes(pair) ==
    {i \in DOMAIN Rows :
        /\ Rows[i].pair = pair
        /\ \A j \in 1..(i - 1) : ~(Rows[j].pair = pair /\ Rows[j].platform = Rows[i].platform)}
QuoteOf(pair, platform) == Rows[CHOOSE i \in Quotes(pair) : Rows[i].platform = platform]
QuotingVenues(pair) == {Rows[i].platform : i \in Quotes(pair)}
LowestRate(pair) ==
    CHOOSE r \in {Rows[i].rate_1h : i \in Quotes(pair)} : \A i \in Quotes(pair) : r <= Rows[i].rate_1h
HighestRate(pair) ==
    CHOOSE r \in {Rows[i].rate_1h : i \in Quotes(pair)} : \A i \in Quotes(pair) : r >= Rows[i].rate_1h
Ranked == Val(rank_call).result

\* C21: the ranker returns at most one opportunity per asset, and an
\* opportunity of an asset is long on a venue quoting the asset's lowest
\* rate and short on a venue quoting its highest rate, its spread is the
\* highest minus the lowest rate, and its min_leverage is the smaller
\* leverage of those two venues; a venue with a rate in between is in
\* neither leg.
C21_LongLowestShortHighest ==
    IsSome(rank_call) =>
        /\ \A i \in DOMAIN Rows : Rows[i] = [funding_input[i] EXCEPT !.pair = standardize_pair_name(@)]
        /\ \A k, l \in DOMAIN Ranked : Ranked[k].pair = Ranked[l].pair => k = l
        /\ \A k \in DOMAIN Ranked :
             LET o == Ranked[k] IN
             /\ {o.long_platform, o.short_platform} \subseteq QuotingVenues(o.pair)
             /\ QuoteOf(o.pair, o.long_platform).rate_1h = LowestRate(o.pair)
             /\ QuoteOf(o.pair, o.short_platform).rate_1h = HighestRate(o.pair)
             /\ o.long_rate_1h = LowestRate(o.pair)
             /\ o.short_rate_1h = HighestRate(o.pair)
             /\ o.spread_1h = HighestRate(o.pair) - LowestRate(o.pair)
             /\ o.min_leverage = Min(QuoteOf(o.pair, o.long_platform).max_leverage,
                                     QuoteOf(o.pair, o.short_platform).max_leverage)
C21_Witness ==
    /\ IsSome(rank_call)
    /\ \E k \in DOMAIN Ranked :
         /\ Ranked[k].pair = BTC
         /\ QuotingVenues(BTC) = {"Hyperliquid", "Lighter", "Paradex"}
         /\ Ranked[k].long_platform = "Hyperliquid" /\ Ranked[k].short_platform = "Paradex"
         /\ QuoteOf(BTC, "Lighter").rate_1h = 2
         /\ Ranked[k].spread_1h = 3 /\ Ranked[k].min_leverage = 10

\* C22: an asset whose snapshots, after the pair names are standardized,
\* all come from one venue is in no opportunity the ranker returns.
C22_SingleVenueNeverRanked ==
    IsSome(rank_call) =>
        \A k \in DOMAIN Ranked : Cardinality(QuotingVenues(Ranked[k].pair)) >= 2
C22_Witness ==
    /\ IsSome(rank_call)
    /\ Len(Ranked) = 1 /\ Ranked[1].pair = ETH
    /\ QuotingVenues(BTC) = {"Paradex"}
    /\ Cardinality({i \in DOMAIN Rows : Rows[i].pair = BTC}) = 2
    /\ Cardinality({funding_input[i].pair : i \in DOMAIN funding_input}) = 4

\* C23: every opportunity returned has its long venue different from its
\* short venue and spread_1h = short_rate_1h - long_rate_1h > 0, whatever
\* min_spread is and also when all venues of an asset quote one rate.
C23_DistinctVenuesPositiveSpread ==
    IsSome(rank_call) =>
        \A k \in DOMAIN Ranked :
            /\ Ranked[k].long_platform # Ranked[k].short_platform
            /\ Ranked[k].spread_1h = Ranked[k].short_rate_1h - Ranked[k].long_rate_1h
            /\ Ranked[k].spread_1h > 0
C23_Witness ==
    /\ IsSome(rank_call)
    /\ Val(rank_call).min_spread = 0
    /\ QuotingVenues(BTC) = {"Hyperliquid", "Paradex"}
    /\ LowestRate(BTC) = HighestRate(BTC)
    /\ Len(Ranked) = 1 /\ Ranked[1].pair = ETH /\ Ranked[1].spread_1h = 3

\* C24, as the code has it: every opportunity returned has spread_1h at
\* least min_spread (a spread equal to min_spread is kept) and a
\* min_leverage, the smaller of its legs' leverages, at least the
\* min_leverage threshold.
C24_ThresholdsRespected ==
    IsSome(rank_call) =>
        \A k \in DOMAIN Ranked :
            /\ Ranked[k].spread_1h >= Val(rank_call).min_spread
            /\ Ranked[k].min_leverage = Min(Ranked[k].long_leverage, Ranked[k].short_leverage)
            /\ Ranked[k].long_leverage = QuoteOf(Ranked[k].pair, Ranked[k].long_platform).max_leverage
            /\ Ranked[k].short_leverage = QuoteOf(Ranked[k].pair, Ranked[k].short_platform).max_leverage
            /\ Ranked[k].min_leverage >= Val(rank_call).min_leverage
C24_Witness ==
    /\ IsSome(rank_call)
    /\ Val(rank_call).min_spread = 3 /\ Val(rank_call).min_leverage = 5
    /\ Len(Ranked) = 1 /\ Ranked[1].pair = BTC
    /\ Ranked[1].spread_1h = 3 /\ Ranked[1].min_leverage = 10
    /\ QuotingVenues(ETH) = {"Hyperliquid", "Lighter"}

\* C24 as stated: every opportunity returned has spread_1h strictly above
\* min_spread, and min_leverage at least the threshold.
C24_SpreadStrictlyAbove ==
    IsSome(rank_call) =>
        \A k \in DOMAIN Ranked :
            /\ Ranked[k].spread_1h > Val(rank_call).min_spread
            /\ Ranked[k].min_leverage >= Val(rank_call).min_leverage

\* The opportunities that pass the filters of a call, before sort and cut.
Qualifying ==
    LET c == Val(rank_call)
        pairs == {Rows[i].pair : i \in DOMAIN Rows}
    IN  {Val(PairOpportunity(Rows, p, c.min_spread, c.min_leverage)) :
            p \in {q \in pairs : IsSome(PairOpportunity(Rows, q, c.min_spread, c.min_leverage))}}

\* C25: the list returned is ordered by falling score_1h, has at most
\* top_n entries, and holds the top_n highest-scoring opportunities that
\* pass the filters: all of them when there are no more than top_n, and no
\* opportunity left out scores higher than one returned.
C25_SortedTopN ==
    IsSome(rank_call) =>
        /\ \A k \in 1..(Len(Ranked) - 1) : Ranked[k].score_1h >= Ranked[k + 1].score_1h
        /\ Len(Ranked) = Min(Val(rank_call).top_n, Cardinality(Qualifying))
        /\ \A k, l \in DOMAIN Ranked : Ranked[k] = Ranked[l] => k = l
        /\ \A k \in DOMAIN Ranked : Ranked[k] \in Qualifying
        /\ \A o \in Qualifying :
              (\A k \in DOMAIN Ranked : Ranked[k] # o) =>
                  \A k \in DOMAIN Ranked : Ranked[k].score_1h >= o.score_1h
C25_Witness ==
    /\ IsSome(rank_call)
    /\ Val(rank_call).top_n = 1
    /\ Cardinality(Qualifying) = 2
    /\ Len(Ranked) = 1 /\ Ranked[1].pair = ETH /\ Ranked[1].score_1h = 900
    /\ \E o \in Qualifying : o.pair = BTC /\ o.score_1h = 500

\* ------------------------------------------------------- the net spread
\* Entry fee, exit fee and slippage of one leg on a venue of the fee
\* table, in basis points.
LegCost(venue) ==
    CASE venue = "Hyperliquid" -> 3 + 3 + 10
      [] venue = "Paradex"     -> 5 + 5 + 15
      [] venue = "Lighter"     -> 5 + 5 + 15
      [] venue = "Extended"    -> 5 + 5 + 20

C27_StandardizeIdempotent ==
    Len(pair_runs) = 3 => pair_runs[3] = pair_runs[2]

\* ------------------------------------------- a short order that raises
\* The long leg filled and the short venue's place_market_order raised.
ShortOrderRaised ==
    /\ LongFilled
    /\ Len(calls) >= 2 /\ calls[2].op = "place_market_order" /\ calls[2].side = "short"
    /\ exec_pc # "await_short"
    /\ IsNone(short_result)

\* C28: when the short venue's place_market_order raises after the long
\* leg filled, execute_delta_neutral still issues the compensating close
\* of the long leg and returns a failure: the error does not leave it with
\* the long leg open and no rollback attempted.
C28_RaisedShortRollsBack ==
    ShortOrderRaised =>
        /\ exec_pc # "raised"
        /\ \E i \in 1..Len(calls) : IsCall(calls[i], LongVenue, "close_position")
        /\ ExecReturned => ~Val(exec_ret).success

\* --------------------------------------------------- restarting a monitor
\* C29: one PositionManager has at most one _monitor_loop task alive at any
\* time, whatever the order of start_monitoring, stop_monitoring,
\* auto-close and ticks.
LiveLoops == {i \in DOMAIN loops : loops[i].pc \notin {"none", "exited"}}
C29_OneLoopRunning == Cardinality(LiveLoops) <= 1

\* ------------------------------------------------------- skipped ticks
\* C30: a tick skipped because a leg's position was not found changes
\* nothing observable: the strategy's positions, last_update and
\* funding_history stay as they were, and the tick emits no alert and no
\* PositionUpdate.
C30_SkippedTickChangesNothing ==
    [][(TickEnds /\ tick_result' = "skipped") =>
          /\ strategy' = strategy
          /\ last_update' = last_update
          /\ funding_history' = funding_history
          /\ is_monitoring' = is_monitoring
          /\ alerts' = <<>>
          /\ updates' = <<>>]_vars
C30_Witness ==
    /\ tick_result = "skipped" /\ ticks = 2
    /\ \E i \in DOMAIN loops : loops[i].pc = "sleep"
    /\ manager.on_update_callback # "none"
    /\ IsSome(last_update) /\ Len(funding_history) = 1
    /\ Val(strategy).long_position = Some(Val(last_update).long_position)
    /\ alerts = <<>> /\ updates = <<>>

=============================================================================
